---------------------------- MODULE Spec2Model ----------------------------
(***************************************************************************)
(* Model of the diroom tool suite:                                         *)
(*  - the streaming transcription engine (package google, type stream):    *)
(*    a session loop that keeps opening bounded recognition sessions,      *)
(*    forwards audio written by the producer, and re-emits the remote's    *)
(*    records on rx shifted by the audio time of the sessions before;      *)
(*  - the image-annotation pipeline of dic (handleSSearch, the consumer    *)
(*    enqueueImageRequest, the workers running ImageRequest.Run over the   *)
(*    ring cache).                                                         *)
(* Durations are counted in microseconds, audio in bytes.                  *)
(***************************************************************************)
EXTENDS Integers, Sequences, FiniteSets, TLC

(***************************************************************************)
(* Bounds of the model.                                                    *)
(***************************************************************************)
\* Number of Write calls the producer makes.
MaxWrites == 2
\* Number of sessions the loop opens; one more may follow a cancellation.
MaxSess == 2
\* Number of words the remote delivers, over all sessions.
MaxRecs == 2
\* Capacity of the tx channel. The source makes it 100 (txBuffSize); the
\* model keeps the name and scales it down so that a full queue is reached.
txBuffSize == 1

\* Sizes, in bytes, of the buffers handed to Write (0: the empty write).
BufSizes == {0, 1, 4}
\* Words as the remote reports them: start and end relative to the session.
Words == {[start |-> 5, end |-> 7]}

\* Number of records handleSSearch reads from its input.
MaxRecords == 2
\* Input records: a record is its fields; the empty one lacks the column.
Records == {<<>>, <<"a">>, <<"b">>}
\* The words looked up, keys of the ring cache.
Queries == {"a", "b"}
\* Links whose HEAD probe fails.
Broken == {"x1", "x2"}
\* Result lists SearchImages returns, as the links of their items.
Results == {<<>>, <<"u1">>, <<"u1", "u2">>, <<"x1", "u1">>, <<"u1", "u2", "u3">>}
\* Links of the items handed to ringCache.set, and how many a call hands.
Links == {"u1", "u2", "u3", "x1", "x2"}
MaxRing == 3
\* How many next calls follow a set of a key.
MaxCalls == 3
\* Values given to the flag sp, commands the subscriber sends, and how many;
\* how many progress updates TranscribeFile writes.
Paths == {"-", "", "discard", "/tmp/progress.sock"}
Commands == {"cancel", "do cancel now", "status"}
MaxCmds == 2
MaxUpdates == 3
\* Segment lists: how many records, the records (the second and third
\* column character by character; the last record lacks a column), the
\* directories.
MaxSegs == 2
SegRecords ==
    {<<"output000.wav", <<"0", ".", "0", "0", "0", "0", "0", "0">>,
                        <<"1", ".", "0", "0", "0", "0", "0", "1">>>>,
     <<"output001.wav", <<"1", ".", "0", "0", "0", "0", "0", "1">>, <<"2">>>>,
     <<"output002.wav", <<"2">>, <<"x">>>>,
     <<"output003.wav", <<>>, <<"2">>>>,
     <<"output004.wav", <<"1", "m">>, <<"2">>>>,
     <<"output005.wav", <<"2">>>>}
SegDirs == {"", ".", "segs"}
\* Values given to the flags t and s of dic.
\* The status codes a HEAD request is answered with.
Statuses == {200, 204, 301, 399, 400, 401, 404, 500}
\* The values of the Content-Type header, as sequences of characters; the
\* empty one is the header missing.
ContentTypes ==
    {<<"i", "m", "a", "g", "e", "/", "j", "p", "e", "g">>,
     <<"i", "m", "a", "g", "e", "/", "p", "n", "g">>,
     <<"t", "e", "x", "t", "/", "h", "t", "m", "l">>,
     <<"t", "e", "x", "t", "/", "i", "m", "a", "g", "e">>,
     <<"I", "m", "a", "g", "e", "/", "p", "n", "g">>,
     <<"i", "m", "a", "g", "/", "j", "p", "e", "g">>,
     <<>>}
TypeArgs == {"clipart", "face", "lineart", "news", "photo", "undefined",
             "Photo", "large", ""}
SizeArgs == {"huge", "icon", "large", "medium", "small", "xlarge", "xxlarge",
             "undefined", "XL", "photo", ""}

(***************************************************************************)
(* Program constants.                                                      *)
(***************************************************************************)
\* The flag c of dic, the column of the query, counted from 0.
column == 0
maxcc == 10
inSampleRate == 16000
inBitDepth == 16
inBitrate == inSampleRate * inBitDepth * 1
\* stream.sessionTimeout, set by the caller of TranscribeStream: 125 us,
\* the duration of 4 bytes of audio.
sessionTimeout == 125

VARIABLES
    ctxErr,           \* Err() of the context given to Open: "nil" or "Canceled"
    timeshiftOffset,  \* stream.timeshiftOffset
    err,              \* stream.err
    rxClosed,         \* whether close(s.rx) has run
    rxCloses,         \* how many times close(s.rx) has run
    tx,               \* contents of the buffered channel stream.tx
    pc,               \* position of the goroutine running openSessionLoop
    sessions,         \* the trSess values opened so far, the last one current
    rr,               \* record received from sess.rx, not yet sent on s.rx
    retErr,           \* value returned by sessLoop, not yet inspected
    nwrites,          \* number of Write calls so far
    rxLog,            \* records sent on s.rx, in order
    sendLog,          \* sendAudio calls, in order
    accepted          \* buffers Write has put on tx, in order

steVars == <<ctxErr, timeshiftOffset, err, rxClosed, rxCloses, tx, pc, sessions,
             rr, retErr, nwrites, rxLog, sendLog, accepted>>

VARIABLES
    interrupted,      \* whether the context given to handleSSearch is cancelled
    proc,             \* the process: "running", "exited" or "panicked"
    dpc,              \* position of handleSSearch
    filled,           \* the counter i of handleSSearch's closing loop
    sem,              \* number of tokens in the channel sem
    txSenders,        \* requests whose sender is parked on the pipeline's tx
    txClosed,         \* whether the pipeline's tx is closed
    reqs,             \* the ImageRequest values made so far, by input position
    cpc,              \* position of enqueueImageRequest
    recw,             \* the request enqueueImageRequest holds (0: none)
    cache,            \* ringCache.m
    mu,               \* holder of the ringCache mutex (0: free)
    out,              \* records written and flushed to stdout, in order
    werr              \* whether the csv writer holds a failed write

iapVars == <<interrupted, proc, dpc, filled, sem, txSenders, txClosed, reqs, cpc,
             recw, cache, mu, out, werr>>

VARIABLES
    calls             \* per key, the next calls made on the key since its last set

ringVars == <<calls>>

VARIABLES
    flagT,            \* the flag t of dic
    flagS,            \* the flag s of dic
    values,           \* the url.Values v of SearchImages, by parameter
    fpc               \* from flag.Parse to the query of the request

searchVars == <<flagT, flagS, values, fpc>>

VARIABLES
    spFlag,           \* the flag sp of the transcriber's main
    mpc,              \* position of that main
    rootDone,         \* whether the context main makes is cancelled
    pwCancelled,      \* whether cancel of makeProgressWriter's context was called
    bridge,           \* the UnixCommBridge: "none", "open" or "closed"
    updates,          \* calls of the progress writer so far
    cmds              \* commands the bridge received, in order

mainVars == <<spFlag, mpc, rootDone, pwCancelled, bridge, updates, cmds>>

VARIABLES
    segIn,            \* the records of the segment list given to parseSegmentList
    segDir,           \* its segDir
    acc,              \* the segments made so far
    segErr,           \* the error it returns ("nil": none)
    segI,             \* the index i of its loop
    spc               \* its position

segVars == <<segIn, segDir, acc, segErr, segI, spc>>

VARIABLES
    head,             \* what fastClient.Head returned to discard
    verdict,          \* what discard returned ("none": not yet)
    hpc               \* position of discard

probeVars == <<head, verdict, hpc>>

\* What neither the stream nor the pipeline touches.
auxVars == <<ringVars, searchVars, mainVars, segVars, probeVars>>

vars == <<steVars, iapVars, auxVars>>

\* The entry of a key ringCache.m does not hold.
NoRing == [all |-> <<>>, index |-> -1]

NoRec == [idx |-> 0, start |-> 0, end |-> 0]

(***************************************************************************)
(* Time-offset accounting.                                                 *)
(***************************************************************************)
\* float64(bytesSent) / (inBitrate / 8) seconds, printed with "%fs" (six
\* decimals, i.e. rounded to the microsecond) and parsed back. A byte lasts
\* 31.25 us. On an exact half microsecond (bytesSent % 4 = 2) "%f" rounds
\* the double nearest to the quotient, which lies above the half for every
\* such bytesSent below 18: the sessions of this model stay below that.
computeTimeshiftOffset(bytesSent) ==
    LET byteRate == inBitrate \div 8
        num == bytesSent * 1000000
    IN  IF byteRate = 0 \/ bytesSent = 0 THEN 0
        ELSE (2 * num + byteRate) \div (2 * byteRate)

\* StrTrRec.ShiftTime: adds the offset to Start and End.
ShiftTime(v, d) == [v EXCEPT !.start = @ + d, !.end = @ + d]

Cur == Len(sessions)

\* Done() of the context sessLoop derives from ctx with WithTimeout.
CtxDone == sessions[Cur].done \/ ctxErr # "nil"

\* Mutant of IsFatal: the error of a failed open is returned unwrapped.
IsFatal_CloseSendOnly(e) == e = "fatal_closesend"

\* errors.As(err, &ferr): the errors sessLoop wraps in a fatalError.
IsFatal(e) == e \in {"fatal_open", "fatal_closesend"}

\* Mutant of DeferOffset: the offset is assigned, not accumulated.
DeferOffset_Assign(off, bytesSent) == computeTimeshiftOffset(bytesSent)

\* The deferred function of sessLoop.
DeferOffset(off, bytesSent) == off + computeTimeshiftOffset(bytesSent)

\* sessLoop returns e: the deferred function runs, openSessionLoop gets e.
Return(e) ==
    /\ timeshiftOffset' = DeferOffset(timeshiftOffset, sessions[Cur].bytesSent)
    /\ retErr' = e
    /\ pc' = "ret"


(***************************************************************************)
(* The recognition session (trSess) and its listening goroutine.           *)
(***************************************************************************)
\* openTrSession's trSess value, with the state of the goroutine it starts:
\*   sstream  the send side of the remote stream: "open", "halfclosed"
\*            (CloseSend done) or "broken" (a Send or CloseSend failed);
\*   done     whether the session's deadline context is done by its timer or
\*            by sessLoop's own cancel();
\*   lst      listenTr: "recv" (in Recv), "send" (in s.rx <- v, with pend
\*            the records still to push), "closed" (close(s.rx) done);
\*   dlv      every word the remote delivered, with tail = delivered after
\*            the half-close;
\*   closeOff timeshiftOffset when CloseSend succeeded (-1: not yet);
\*   afterCancel  whether the session was opened with ctx already cancelled.
NewSess ==
    [bytesSent |-> 0, sstream |-> "open", done |-> FALSE, lst |-> "recv",
     pend |-> <<>>, dlv |-> <<>>, closeOff |-> -1,
     afterCancel |-> (ctxErr # "nil")]

RECURSIVE SumLen(_)
SumLen(ss) == IF ss = <<>> THEN 0 ELSE Len(Head(ss).dlv) + SumLen(Tail(ss))

\* Words delivered so far, over all sessions.
Delivered == SumLen(sessions)

\* listenTr, Recv returns a response whose first alternative holds the words
\* ws; they are mapped to records and the goroutine starts pushing them.
\* (A response without words changes nothing: listenTr continues.)
Recv(k, ws) ==
    /\ sessions[k].lst = "recv"
    /\ sessions[k].sstream # "broken"
    /\ Delivered + Len(ws) <= MaxRecs
    /\ LET n == Len(sessions[k].dlv)
           recs == [i \in 1..Len(ws) |->
                      [idx |-> n + i, start |-> ws[i].start, end |-> ws[i].end]]
           marks == [i \in 1..Len(ws) |->
                      [w |-> ws[i], tail |-> sessions[k].sstream = "halfclosed"]]
       IN sessions' = [sessions EXCEPT ![k].lst = "send",
                                       ![k].pend = recs,
                                       ![k].dlv = @ \o marks]
    /\ UNCHANGED <<iapVars, auxVars>>
    /\ UNCHANGED <<ctxErr, timeshiftOffset, err, rxClosed, rxCloses, tx, pc, rr,
                   retErr, nwrites, rxLog, sendLog, accepted>>

\* listenTr, Recv returns an error (the end of the stream included): the
\* goroutine records it, closes the session's rx and ends.
RecvErr(k) ==
    /\ sessions[k].lst = "recv"
    /\ sessions' = [sessions EXCEPT ![k].lst = "closed"]
    /\ UNCHANGED <<iapVars, auxVars>>
    /\ UNCHANGED <<ctxErr, timeshiftOffset, err, rxClosed, rxCloses, tx, pc, rr,
                   retErr, nwrites, rxLog, sendLog, accepted>>

\* Mutant of Pushed: the records of a response are pushed last first.
Pushed_Last(s) == s.pend[Len(s.pend)]

\* listenTr, for _, v := range results { s.rx <- v }: the record it sends.
Pushed(s) == Head(s.pend)

\* The receive from sess.rx that meets listenTr's send: the head of pend is
\* handed over, and listenTr goes back to Recv after its last record.
TakeFromSess(s) ==
    [s EXCEPT !.pend = Tail(@),
              !.lst = IF Len(s.pend) = 1 THEN "recv" ELSE "send"]

(***************************************************************************)
(* The producer and the outer context.                                     *)
(***************************************************************************)
\* Mutant of Write: an empty p is sent on tx like any other.
Write_SendsEmpty(n) ==
    /\ nwrites < MaxWrites
    /\ nwrites' = nwrites + 1
    /\ Len(tx) < txBuffSize
    /\ tx' = Append(tx, [id |-> nwrites + 1, len |-> n])
    /\ accepted' = Append(accepted, [id |-> nwrites + 1, len |-> n])
    /\ UNCHANGED <<iapVars, auxVars>>
    /\ UNCHANGED <<ctxErr, timeshiftOffset, err, rxClosed, rxCloses, pc, sessions,
                   rr, retErr, rxLog, sendLog>>

\* Mutant of Write: a buffer that finds tx full is dropped, not waited for.
Write_DropWhenFull(n) ==
    /\ nwrites < MaxWrites
    /\ nwrites' = nwrites + 1
    /\ IF n = 0
       THEN UNCHANGED <<tx, accepted>>
       ELSE /\ tx' = IF Len(tx) < txBuffSize
                     THEN Append(tx, [id |-> nwrites + 1, len |-> n])
                     ELSE tx
            /\ accepted' = Append(accepted, [id |-> nwrites + 1, len |-> n])
    /\ UNCHANGED <<iapVars, auxVars>>
    /\ UNCHANGED <<ctxErr, timeshiftOffset, err, rxClosed, rxCloses, pc, sessions,
                   rr, retErr, rxLog, sendLog>>

\* stream.Write(p) with len(p) = n: an empty p returns at once, any other is
\* sent on tx, which blocks while the channel is full.
Write(n) ==
    /\ nwrites < MaxWrites
    /\ nwrites' = nwrites + 1
    /\ IF n = 0
       THEN UNCHANGED <<tx, accepted>>
       ELSE /\ Len(tx) < txBuffSize
            /\ tx' = Append(tx, [id |-> nwrites + 1, len |-> n])
            /\ accepted' = Append(accepted, [id |-> nwrites + 1, len |-> n])
    /\ UNCHANGED <<iapVars, auxVars>>
    /\ UNCHANGED <<ctxErr, timeshiftOffset, err, rxClosed, rxCloses, pc, sessions,
                   rr, retErr, rxLog, sendLog>>

\* The context given to Open is cancelled.
Cancel ==
    /\ ctxErr = "nil"
    /\ ctxErr' = "Canceled"
    /\ UNCHANGED <<iapVars, auxVars>>
    /\ UNCHANGED <<timeshiftOffset, err, rxClosed, rxCloses, tx, pc, sessions, rr,
                   retErr, nwrites, rxLog, sendLog, accepted>>

\* The timer of the session's WithTimeout context fires.
Timeout ==
    /\ pc \in {"select", "fwd"}
    /\ ~sessions[Cur].done
    /\ sessions' = [sessions EXCEPT ![Cur].done = TRUE]
    /\ UNCHANGED <<iapVars, auxVars>>
    /\ UNCHANGED <<ctxErr, timeshiftOffset, err, rxClosed, rxCloses, tx, pc, rr,
                   retErr, nwrites, rxLog, sendLog, accepted>>

(***************************************************************************)
(* sessLoop.                                                               *)
(***************************************************************************)
\* openTrSession succeeds: the session and its listenTr goroutine exist.
\* (The session is opened under context.Background(): ctx is not looked at.)
OpenSession ==
    /\ pc = "open"
    /\ Len(sessions) < MaxSess + (IF ctxErr = "nil" THEN 0 ELSE 1)
    /\ sessions' = Append(sessions, NewSess)
    /\ pc' = "select"
    /\ UNCHANGED <<iapVars, auxVars>>
    /\ UNCHANGED <<ctxErr, timeshiftOffset, err, rxClosed, rxCloses, tx, rr, retErr,
                   nwrites, rxLog, sendLog, accepted>>

\* openTrSession fails: sessLoop returns a fatalError before its deferred
\* function is registered.
OpenSessionFails ==
    /\ pc = "open"
    /\ retErr' = "fatal_open"
    /\ pc' = "ret"
    /\ UNCHANGED <<iapVars, auxVars>>
    /\ UNCHANGED <<ctxErr, timeshiftOffset, err, rxClosed, rxCloses, tx, sessions,
                   rr, nwrites, rxLog, sendLog, accepted>>

\* Mutant of SelectDone: sessLoop returns right after CloseSend, without
\* consuming the session's rx.
SelectDone_NoDrain ==
    /\ pc = "select"
    /\ CtxDone
    /\ sessions' = [sessions EXCEPT ![Cur].sstream = "halfclosed",
                                    ![Cur].closeOff = timeshiftOffset]
    /\ Return(ctxErr)
    /\ UNCHANGED <<iapVars, auxVars>>
    /\ UNCHANGED <<ctxErr, err, rxClosed, rxCloses, tx, rr, nwrites, rxLog,
                   sendLog, accepted>>

\* select, case <-_ctx.Done(): CloseSend succeeds, the drain begins.
SelectDone ==
    /\ pc = "select"
    /\ CtxDone
    /\ sessions' = [sessions EXCEPT ![Cur].sstream = "halfclosed",
                                    ![Cur].closeOff = timeshiftOffset]
    /\ pc' = "drain"
    /\ UNCHANGED <<iapVars, auxVars>>
    /\ UNCHANGED <<ctxErr, timeshiftOffset, err, rxClosed, rxCloses, tx, rr, retErr,
                   nwrites, rxLog, sendLog, accepted>>

\* select, case <-_ctx.Done(): CloseSend fails, a fatalError is returned.
SelectDoneFails ==
    /\ pc = "select"
    /\ CtxDone
    /\ sessions' = [sessions EXCEPT ![Cur].sstream = "broken"]
    /\ Return("fatal_closesend")
    /\ UNCHANGED <<iapVars, auxVars>>
    /\ UNCHANGED <<ctxErr, err, rxClosed, rxCloses, tx, rr, nwrites, rxLog, sendLog, accepted>>

\* select, case rr, ok := <-sess.rx with ok: a record is received.
SelectRecv ==
    /\ pc = "select"
    /\ sessions[Cur].lst = "send"
    /\ rr' = Pushed(sessions[Cur])
    /\ sessions' = [sessions EXCEPT ![Cur] = TakeFromSess(@)]
    /\ pc' = "fwd"
    /\ UNCHANGED <<iapVars, auxVars>>
    /\ UNCHANGED <<ctxErr, timeshiftOffset, err, rxClosed, rxCloses, tx, retErr,
                   nwrites, rxLog, sendLog, accepted>>

\* select, case rr, ok := <-sess.rx with !ok: the session's rx was closed.
SelectRxClosed ==
    /\ pc = "select"
    /\ sessions[Cur].lst = "closed"
    /\ Return("rx_closed")
    /\ UNCHANGED <<iapVars, auxVars>>
    /\ UNCHANGED <<ctxErr, err, rxClosed, rxCloses, tx, sessions, rr, nwrites,
                   rxLog, sendLog, accepted>>

\* sendAudio(p) succeeds: bytesSent grows by len(p).
sendAudio(s, n) == [s EXCEPT !.bytesSent = @ + n]

\* Mutant of SelectTx: cancel() only when the audio sent exceeds the timeout.
SelectTx_Exceeds ==
    /\ pc = "select"
    /\ tx # <<>>
    /\ LET p == Head(tx)
           sent == sendAudio(sessions[Cur], p.len)
           toff == computeTimeshiftOffset(sent.bytesSent)
       IN /\ tx' = Tail(tx)
          /\ sendLog' = Append(sendLog, [sess |-> Cur, buf |-> p, ok |-> TRUE])
          /\ sessions' = [sessions EXCEPT
                            ![Cur] = [sent EXCEPT
                                        !.done = @ \/ toff > sessionTimeout]]
    /\ UNCHANGED <<iapVars, auxVars>>
    /\ UNCHANGED <<ctxErr, timeshiftOffset, err, rxClosed, rxCloses, pc, rr, retErr,
                   nwrites, rxLog, accepted>>

\* select, case p := <-s.tx: the buffer is sent; cancel() when the audio sent
\* reaches the session timeout.
SelectTx ==
    /\ pc = "select"
    /\ tx # <<>>
    /\ LET p == Head(tx)
           sent == sendAudio(sessions[Cur], p.len)
           toff == computeTimeshiftOffset(sent.bytesSent)
       IN /\ tx' = Tail(tx)
          /\ sendLog' = Append(sendLog, [sess |-> Cur, buf |-> p, ok |-> TRUE])
          /\ sessions' = [sessions EXCEPT
                            ![Cur] = [sent EXCEPT
                                        !.done = @ \/ toff >= sessionTimeout]]
    /\ UNCHANGED <<iapVars, auxVars>>
    /\ UNCHANGED <<ctxErr, timeshiftOffset, err, rxClosed, rxCloses, pc, rr, retErr,
                   nwrites, rxLog, accepted>>

\* select, case p := <-s.tx: Send fails and sessLoop returns the error.
SelectTxFails ==
    /\ pc = "select"
    /\ tx # <<>>
    /\ tx' = Tail(tx)
    /\ sendLog' = Append(sendLog, [sess |-> Cur, buf |-> Head(tx), ok |-> FALSE])
    /\ sessions' = [sessions EXCEPT ![Cur].sstream = "broken"]
    /\ Return("send_failed")
    /\ UNCHANGED <<iapVars, auxVars>>
    /\ UNCHANGED <<ctxErr, err, rxClosed, rxCloses, rr, nwrites, rxLog, accepted>>

\* txRecognitionResults(rr): the record is shifted by the current offset and
\* sent on s.rx, where the consumer takes it.
txRecognitionResults(next) ==
    /\ rxLog' = Append(rxLog, [sess |-> Cur] @@ ShiftTime(rr, timeshiftOffset))
    /\ rr' = NoRec
    /\ pc' = next
    /\ UNCHANGED <<iapVars, auxVars>>
    /\ UNCHANGED <<ctxErr, timeshiftOffset, err, rxClosed, rxCloses, tx, sessions,
                   retErr, nwrites, sendLog, accepted>>

\* The forward of a record received in the select.
Forward ==
    /\ pc = "fwd"
    /\ txRecognitionResults("select")

\* for rr := range sess.rx, a record is received.
DrainRecv ==
    /\ pc = "drain"
    /\ sessions[Cur].lst = "send"
    /\ rr' = Pushed(sessions[Cur])
    /\ sessions' = [sessions EXCEPT ![Cur] = TakeFromSess(@)]
    /\ pc' = "drainfwd"
    /\ UNCHANGED <<iapVars, auxVars>>
    /\ UNCHANGED <<ctxErr, timeshiftOffset, err, rxClosed, rxCloses, tx, retErr,
                   nwrites, rxLog, sendLog, accepted>>

\* The forward of a record received in the drain.
DrainForward ==
    /\ pc = "drainfwd"
    /\ txRecognitionResults("drain")

\* Mutant of DrainEnd: the drain returns nil whatever the outer context.
DrainEnd_ReturnsNil ==
    /\ pc = "drain"
    /\ sessions[Cur].lst = "closed"
    /\ Return("nil")
    /\ UNCHANGED <<iapVars, auxVars>>
    /\ UNCHANGED <<ctxErr, err, rxClosed, rxCloses, tx, sessions, rr, nwrites,
                   rxLog, sendLog, accepted>>

\* for rr := range sess.rx ends, the channel being closed: return ctx.Err().
DrainEnd ==
    /\ pc = "drain"
    /\ sessions[Cur].lst = "closed"
    /\ Return(ctxErr)
    /\ UNCHANGED <<iapVars, auxVars>>
    /\ UNCHANGED <<ctxErr, err, rxClosed, rxCloses, tx, sessions, rr, nwrites,
                   rxLog, sendLog, accepted>>

(***************************************************************************)
(* openSessionLoop.                                                        *)
(***************************************************************************)
\* Mutant of AfterSessLoop: the error is not stored in the stream.
AfterSessLoop_ErrNotSet ==
    /\ pc = "ret"
    /\ retErr' = "nil"
    /\ IF retErr = "nil"
       THEN /\ pc' = "open"
            /\ UNCHANGED <<err, rxClosed, rxCloses>>
       ELSE /\ UNCHANGED err
            /\ IF IsFatal(retErr) \/ ctxErr = "Canceled"
               THEN /\ rxClosed' = TRUE
                    /\ rxCloses' = rxCloses + 1
                    /\ pc' = "closed"
               ELSE /\ pc' = "open"
                    /\ UNCHANGED <<rxClosed, rxCloses>>
    /\ UNCHANGED <<iapVars, auxVars>>
    /\ UNCHANGED <<ctxErr, timeshiftOffset, tx, sessions, rr, nwrites, rxLog,
                   sendLog, accepted>>

\* Mutant of AfterSessLoop: the loop goes on after closing rx.
AfterSessLoop_NoReturn ==
    /\ pc = "ret"
    /\ retErr' = "nil"
    /\ pc' = "open"
    /\ IF retErr = "nil"
       THEN UNCHANGED <<err, rxClosed, rxCloses>>
       ELSE /\ err' = retErr
            /\ IF IsFatal(retErr) \/ ctxErr = "Canceled"
               THEN /\ rxClosed' = TRUE
                    /\ rxCloses' = rxCloses + 1
               ELSE UNCHANGED <<rxClosed, rxCloses>>
    /\ UNCHANGED <<iapVars, auxVars>>
    /\ UNCHANGED <<ctxErr, timeshiftOffset, tx, sessions, rr, nwrites, rxLog,
                   sendLog, accepted>>

\* Mutant of AfterSessLoop: rx is closed on every error sessLoop returns.
AfterSessLoop_ClosesOnError ==
    /\ pc = "ret"
    /\ retErr' = "nil"
    /\ IF retErr = "nil"
       THEN /\ pc' = "open"
            /\ UNCHANGED <<err, rxClosed, rxCloses>>
       ELSE /\ err' = retErr
            /\ rxClosed' = TRUE
            /\ rxCloses' = rxCloses + 1
            /\ pc' = "closed"
    /\ UNCHANGED <<iapVars, auxVars>>
    /\ UNCHANGED <<ctxErr, timeshiftOffset, tx, sessions, rr, nwrites, rxLog,
                   sendLog, accepted>>

\* The body of the for loop after sessLoop returned.
AfterSessLoop ==
    /\ pc = "ret"
    /\ retErr' = "nil"
    /\ IF retErr = "nil"
       THEN /\ pc' = "open"
            /\ UNCHANGED <<err, rxClosed, rxCloses>>
       ELSE /\ err' = retErr
            /\ IF IsFatal(retErr) \/ ctxErr = "Canceled"
               THEN /\ rxClosed' = TRUE
                    /\ rxCloses' = rxCloses + 1
                    /\ pc' = "closed"
               ELSE /\ pc' = "open"
                    /\ UNCHANGED <<rxClosed, rxCloses>>
    /\ UNCHANGED <<iapVars, auxVars>>
    /\ UNCHANGED <<ctxErr, timeshiftOffset, tx, sessions, rr, nwrites, rxLog,
                   sendLog, accepted>>

(***************************************************************************)
(* The ring cache of dic.                                                  *)
(***************************************************************************)
\* What fastClient.Head returns: err set, or a response with a status code
\* and a Content-Type header.
NoResponse == [err |-> TRUE, status |-> 0, ctype |-> <<>>]

\* strings.Contains(s, sub).
Contains(s, sub) ==
    \E i \in 0..(Len(s) - Len(sub)) : SubSeq(s, i + 1, i + Len(sub)) = sub

\* Mutant of discardResponse: only a status above 400 is rejected.
discardResponse_Above400(resp) ==
    IF resp.err THEN TRUE
    ELSE IF resp.status > 400 THEN TRUE
    ELSE ~Contains(resp.ctype, <<"i", "m", "a", "g", "e">>)

\* discard, from the return of fastClient.Head on.
discardResponse(resp) ==
    IF resp.err THEN TRUE
    ELSE IF resp.status >= 400 THEN TRUE
    ELSE ~Contains(resp.ctype, <<"i", "m", "a", "g", "e">>)

\* What the HEAD request of each link of the model is answered with.
HeadOf(link) ==
    CASE link = "u1" -> [err |-> FALSE, status |-> 200, ctype |-> <<"i", "m", "a", "g", "e", "/", "j", "p", "e", "g">>]
      [] link = "u2" -> [err |-> FALSE, status |-> 399, ctype |-> <<"i", "m", "a", "g", "e", "/", "p", "n", "g">>]
      [] link = "u3" -> [err |-> FALSE, status |-> 200, ctype |-> <<"i", "m", "a", "g", "e", "/", "j", "p", "e", "g">>]
      [] link = "x1" -> [err |-> FALSE, status |-> 400, ctype |-> <<"i", "m", "a", "g", "e", "/", "j", "p", "e", "g">>]
      [] link = "x2" -> [err |-> FALSE, status |-> 200, ctype |-> <<"t", "e", "x", "t", "/", "h", "t", "m", "l">>]
      [] OTHER -> NoResponse

\* Mutant of discard: the probe rejects no link.
discard_RejectsNone(link) == FALSE

\* discard(link): the HEAD probe rejects the link.
discard(link) == discardResponse(HeadOf(link))

\* ringCache.set: the imageRing made of the results, untouched, index 0.
imageRing(results) ==
    [all |-> [i \in 1..Len(results) |->
                 [image |-> results[i], checked |-> FALSE, valid |-> FALSE]],
     index |-> 0]

RECURSIVE scan(_, _, _)
\* The for loop of imageRing.next at position i (counted from 0) and what
\* follows it. kind is "image" (an image is returned), "nil", "panic" (the
\* remainder by len(ir.all) - 1 = 0) or "spin": the loop came back to a
\* position it had already rejected, and never ends. fuel counts the
\* positions not yet visited.
scan(ir, i, fuel) ==
    LET n == Len(ir.all)
    IN  IF i >= n THEN [kind |-> "nil", image |-> "", ring |-> ir]
        ELSE LET ti == ir.all[i + 1]
                 v == IF ~ti.checked THEN ~discard(ti.image) ELSE ti.valid
                 probed == [ir EXCEPT !.all[i + 1].valid = v]
             IN  IF n - 1 = 0
                 THEN [kind |-> "panic", image |-> "", ring |-> probed]
                 ELSE IF v
                 THEN [kind |-> "image", image |-> ti.image,
                       ring |-> [probed EXCEPT !.index = (i + 1) % (n - 1)]]
                 ELSE IF fuel = 0
                 THEN [kind |-> "spin", image |-> "", ring |-> probed]
                 ELSE scan(probed, (i + 1) % (n - 1), fuel - 1)

\* imageRing.next.
imageRing_next(ir) ==
    IF Len(ir.all) = 0 THEN [kind |-> "nil", image |-> "", ring |-> ir]
    ELSE scan(ir, ir.index, Len(ir.all))

\* Mutant of ringCache_next: the ring that returned nil stays in the map.
ringCache_next_KeepsRing(m, k) ==
    IF m[k] = NoRing THEN [kind |-> "nil", image |-> "", m |-> m]
    ELSE LET r == imageRing_next(m[k])
         IN  [kind |-> r.kind, image |-> r.image,
              m |-> IF r.kind = "nil" THEN m ELSE [m EXCEPT ![k] = r.ring]]

\* ringCache.next(k) on the map m: the outcome of the ring and the map after.
ringCache_next(m, k) ==
    IF m[k] = NoRing THEN [kind |-> "nil", image |-> "", m |-> m]
    ELSE LET r == imageRing_next(m[k])
         IN  IF r.kind = "nil"
             THEN [kind |-> "nil", image |-> "", m |-> [m EXCEPT ![k] = NoRing]]
             ELSE [kind |-> r.kind, image |-> r.image,
                   m |-> [m EXCEPT ![k] = r.ring]]

\* Mutant of ringCache_set: the map is made anew, with the ring of k alone.
ringCache_set_NewMap(m, k, results) ==
    [q \in DOMAIN m |-> IF q = k THEN imageRing(results) ELSE NoRing]

\* ringCache.set(k, results).
ringCache_set(m, k, results) == [m EXCEPT ![k] = imageRing(results)]

(***************************************************************************)
(* handleSSearch, the dispatcher of dic.                                   *)
(***************************************************************************)
Running == proc = "running"

\* rw := &ImageRequest{...}: st is the position of the goroutine that runs
\* it, "new" before the goroutine exists; items holds what SearchImages
\* returned until it is stored in the cache; late tells whether the request
\* was handed to the consumer or to its worker with ctx already cancelled.
ImageRequest(rec) ==
    [rec |-> rec, err |-> "nil", st |-> "new", items |-> <<>>, late |-> FALSE]

\* The request handleSSearch made last.
rw == Len(reqs)

\* The signal handler of main cancels the context.
Interrupt ==
    /\ Running
    /\ ~interrupted
    /\ interrupted' = TRUE
    /\ UNCHANGED <<proc, dpc, filled, sem, txSenders, txClosed, reqs, cpc, recw,
                   cache, mu, out, werr>>
    /\ UNCHANGED <<steVars, auxVars>>

\* select, case <-ctx.Done(): the input loop is left.
LoopCtxDone ==
    /\ Running
    /\ dpc = "select"
    /\ interrupted
    /\ dpc' = "fill"
    /\ UNCHANGED <<interrupted, proc, filled, sem, txSenders, txClosed, reqs,
                   cpc, recw, cache, mu, out, werr>>
    /\ UNCHANGED <<steVars, auxVars>>

\* select, case err := <-errc: meets the send of enqueueImageRequest, which
\* returns; the input loop is left.
LoopErrc ==
    /\ Running
    /\ dpc = "select"
    /\ cpc = "errc"
    /\ dpc' = "fill"
    /\ cpc' = "returned"
    /\ UNCHANGED <<interrupted, proc, filled, sem, txSenders, txClosed, reqs,
                   recw, cache, mu, out, werr>>
    /\ UNCHANGED <<steVars, auxVars>>

\* Mutant of LoopDefault: the select does not look at ctx.Done().
LoopDefault_IgnoresCtx ==
    /\ Running
    /\ dpc = "select"
    /\ cpc # "errc"
    /\ dpc' = "read"
    /\ UNCHANGED <<interrupted, proc, filled, sem, txSenders, txClosed, reqs, cpc,
                   recw, cache, mu, out, werr>>
    /\ UNCHANGED <<steVars, auxVars>>

\* select, default: taken when no other case is ready.
LoopDefault ==
    /\ Running
    /\ dpc = "select"
    /\ ~interrupted
    /\ cpc # "errc"
    /\ dpc' = "read"
    /\ UNCHANGED <<interrupted, proc, filled, sem, txSenders, txClosed, reqs,
                   cpc, recw, cache, mu, out, werr>>
    /\ UNCHANGED <<steVars, auxVars>>

\* csvr.Read() returns the record rec, and the request is made.
ReadRecord(rec) ==
    /\ Running
    /\ dpc = "read"
    /\ Len(reqs) < MaxRecords
    /\ reqs' = Append(reqs, ImageRequest(rec))
    /\ dpc' = "send"
    /\ UNCHANGED <<interrupted, proc, filled, sem, txSenders, txClosed, cpc,
                   recw, cache, mu, out, werr>>
    /\ UNCHANGED <<steVars, auxVars>>

\* csvr.Read() returns io.EOF or another error: the input loop is left.
ReadEnds ==
    /\ Running
    /\ dpc = "read"
    /\ dpc' = "fill"
    /\ UNCHANGED <<interrupted, proc, filled, sem, txSenders, txClosed, reqs,
                   cpc, recw, cache, mu, out, werr>>
    /\ UNCHANGED <<steVars, auxVars>>

\* Mutant of SendTx: the send is left to a goroutine, handleSSearch goes on.
SendTx_InGoroutine ==
    /\ Running
    /\ dpc = "send"
    /\ txSenders' = txSenders \cup {rw}
    /\ dpc' = "acquire"
    /\ UNCHANGED <<interrupted, proc, filled, sem, txClosed, reqs, cpc, recw,
                   cache, mu, out, werr>>
    /\ UNCHANGED <<steVars, auxVars>>

\* tx <- rw: tx has no buffer, handleSSearch parks until the receive.
SendTx ==
    /\ Running
    /\ dpc = "send"
    /\ txSenders' = txSenders \cup {rw}
    /\ dpc' = "sending"
    /\ UNCHANGED <<interrupted, proc, filled, sem, txClosed, reqs, cpc, recw,
                   cache, mu, out, werr>>
    /\ UNCHANGED <<steVars, auxVars>>

\* Mutant of Acquire: the worker is started without a token being put.
Acquire_NoToken ==
    /\ Running
    /\ dpc = "acquire"
    /\ reqs' = [reqs EXCEPT ![rw].st = "run", ![rw].late = @ \/ interrupted]
    /\ dpc' = "select"
    /\ UNCHANGED <<interrupted, proc, filled, sem, txSenders, txClosed, cpc, recw,
                   cache, mu, out, werr>>
    /\ UNCHANGED <<steVars, auxVars>>

\* sem <- struct{}{} and go func(rw): a token is put and the worker starts.
Acquire ==
    /\ Running
    /\ dpc = "acquire"
    /\ sem < maxcc
    /\ sem' = sem + 1
    /\ reqs' = [reqs EXCEPT ![rw].st = "run", ![rw].late = @ \/ interrupted]
    /\ dpc' = "select"
    /\ UNCHANGED <<interrupted, proc, filled, txSenders, txClosed, cpc, recw,
                   cache, mu, out, werr>>
    /\ UNCHANGED <<steVars, auxVars>>

\* for i := 0; i < cap(sem); i++ { sem <- struct{}{} }, one iteration.
FillSem ==
    /\ Running
    /\ dpc = "fill"
    /\ filled < maxcc
    /\ sem < maxcc
    /\ sem' = sem + 1
    /\ filled' = filled + 1
    /\ UNCHANGED <<interrupted, proc, dpc, txSenders, txClosed, reqs, cpc, recw,
                   cache, mu, out, werr>>
    /\ UNCHANGED <<steVars, auxVars>>

\* handleSSearch returns: the deferred close(tx) runs.
Returns ==
    /\ Running
    /\ dpc = "fill"
    /\ filled = maxcc
    /\ txClosed' = TRUE
    /\ dpc' = "returned"
    /\ UNCHANGED <<interrupted, proc, filled, sem, txSenders, reqs, cpc, recw,
                   cache, mu, out, werr>>
    /\ UNCHANGED <<steVars, auxVars>>

\* main returns after handleSSearch: the process ends, with its goroutines.
MainReturns ==
    /\ Running
    /\ dpc = "returned"
    /\ proc' = "exited"
    /\ UNCHANGED <<interrupted, dpc, filled, sem, txSenders, txClosed, reqs, cpc,
                   recw, cache, mu, out, werr>>
    /\ UNCHANGED <<steVars, auxVars>>

(***************************************************************************)
(* ImageRequest.Run and the goroutine handleSSearch starts for it.         *)
(***************************************************************************)
\* k := r.rec[r.c]
Key(r) == r.rec[column + 1]

\* r.rec = append(r.rec, link) and the return of Run's body.
Linked(r, link) == [r EXCEPT !.rec = Append(@, link), !.st = "done"]

\* Mutant of Failed: Run's body returns without r.err being set.
Failed_ErrNotSet(r, e) == [r EXCEPT !.st = "done"]

\* The return of Run's body with r.err set.
Failed(r, e) == [r EXCEPT !.err = e, !.st = "done"]

\* Run, r.c >= len(r.rec): the record has no such column.
RunNoColumn(n) ==
    /\ Running
    /\ reqs[n].st = "run"
    /\ column >= Len(reqs[n].rec)
    /\ reqs' = [reqs EXCEPT ![n] = Failed(@, "column")]
    /\ UNCHANGED <<interrupted, proc, dpc, filled, sem, txSenders, txClosed, cpc,
                   recw, cache, mu, out, werr>>
    /\ UNCHANGED <<steVars, auxVars>>

\* Mutant of RunNext: Run goes to the search without looking at the cache.
RunNext_SkipsCache(n) ==
    /\ Running
    /\ reqs[n].st = "run"
    /\ column < Len(reqs[n].rec)
    /\ reqs' = [reqs EXCEPT ![n].st = "search"]
    /\ UNCHANGED <<interrupted, proc, dpc, filled, sem, txSenders, txClosed, cpc,
                   recw, cache, mu, out, werr>>
    /\ UNCHANGED <<steVars, auxVars>>

\* Run, the first r.cache.next(k), under the mutex. A hit ends Run with the
\* link appended, a miss leads to the search; the division by zero of a ring
\* of one entry ends the process; a ring that is scanned for ever keeps the
\* mutex.
RunNext(n) ==
    /\ Running
    /\ reqs[n].st = "run"
    /\ column < Len(reqs[n].rec)
    /\ mu = 0
    /\ LET got == ringCache_next(cache, Key(reqs[n]))
       IN  /\ cache' = got.m
           /\ proc' = IF got.kind = "panic" THEN "panicked" ELSE proc
           /\ mu' = IF got.kind = "spin" THEN n ELSE mu
           /\ reqs' = [reqs EXCEPT ![n] =
                         CASE got.kind = "image" -> Linked(@, got.image)
                           [] got.kind = "nil" -> [@ EXCEPT !.st = "search"]
                           [] got.kind = "spin" -> [@ EXCEPT !.st = "spin"]
                           [] OTHER -> @]
    /\ UNCHANGED <<interrupted, dpc, filled, sem, txSenders, txClosed, cpc, recw,
                   out, werr>>
    /\ UNCHANGED <<steVars, auxVars>>

\* Run, SearchImages returns the items: none is "no results", with an empty
\* link appended.
SearchImages(n, items) ==
    /\ Running
    /\ reqs[n].st = "search"
    /\ reqs' = [reqs EXCEPT ![n] =
                  IF Len(items) = 0
                  THEN Failed(Linked(@, ""), "no results")
                  ELSE [@ EXCEPT !.items = items, !.st = "found"]]
    /\ UNCHANGED <<interrupted, proc, dpc, filled, sem, txSenders, txClosed, cpc,
                   recw, cache, mu, out, werr>>
    /\ UNCHANGED <<steVars, auxVars>>

\* Err() of a context made by context.WithTimeout(parent, d): the error of
\* the parent once the parent is done, DeadlineExceeded once its own timer
\* has fired.
WithTimeout(parentErr, fired) ==
    IF parentErr # "nil" THEN parentErr
    ELSE IF fired THEN "DeadlineExceeded" ELSE "nil"

\* Err() of context.Background().
Background == "nil"

\* Err() of the context handleSSearch is given.
OuterCtxErr == IF interrupted THEN "Canceled" ELSE "nil"

\* Mutant of WorkerCtxErr: the worker's context is derived from ctx.
WorkerCtxErr_FromOuter(fired) == WithTimeout(OuterCtxErr, fired)

\* Err() of the _ctx the worker gives to Run:
\* context.WithTimeout(context.Background(), time.Second*5).
WorkerCtxErr(fired) == WithTimeout(Background, fired)

\* Run, SearchImages returns an error: the error of the worker's context
\* when that context is done, or else an error of the request itself.
SearchImagesFails(n) ==
    /\ Running
    /\ reqs[n].st = "search"
    /\ \E fired \in BOOLEAN :
           reqs' = [reqs EXCEPT ![n] =
                      Failed(@, IF WorkerCtxErr(fired) # "nil"
                                THEN WorkerCtxErr(fired) ELSE "search")]
    /\ UNCHANGED <<interrupted, proc, dpc, filled, sem, txSenders, txClosed, cpc,
                   recw, cache, mu, out, werr>>
    /\ UNCHANGED <<steVars, auxVars>>

\* Run, r.cache.set(k, items), under the mutex.
RunSet(n) ==
    /\ Running
    /\ reqs[n].st = "found"
    /\ mu = 0
    /\ cache' = ringCache_set(cache, Key(reqs[n]), reqs[n].items)
    /\ reqs' = [reqs EXCEPT ![n].items = <<>>, ![n].st = "set"]
    /\ UNCHANGED <<interrupted, proc, dpc, filled, sem, txSenders, txClosed, cpc,
                   recw, mu, out, werr>>
    /\ UNCHANGED <<steVars, auxVars>>

\* Run, the second r.cache.next(k): a miss is a "cache inconsistency", with
\* an empty link appended.
RunNextAgain(n) ==
    /\ Running
    /\ reqs[n].st = "set"
    /\ mu = 0
    /\ LET got == ringCache_next(cache, Key(reqs[n]))
       IN  /\ cache' = got.m
           /\ proc' = IF got.kind = "panic" THEN "panicked" ELSE proc
           /\ mu' = IF got.kind = "spin" THEN n ELSE mu
           /\ reqs' = [reqs EXCEPT ![n] =
                         CASE got.kind = "image" -> Linked(@, got.image)
                           [] got.kind = "nil" ->
                                Failed(Linked(@, ""), "cache inconsistency")
                           [] got.kind = "spin" -> [@ EXCEPT !.st = "spin"]
                           [] OTHER -> @]
    /\ UNCHANGED <<interrupted, dpc, filled, sem, txSenders, txClosed, cpc, recw,
                   out, werr>>
    /\ UNCHANGED <<steVars, auxVars>>

\* The deferred r.done <- true of Run meets the <-r.done of Wait.
Wait(n) ==
    /\ Running
    /\ reqs[n].st = "done"
    /\ cpc = "wait"
    /\ recw = n
    /\ reqs' = [reqs EXCEPT ![n].st = "sent"]
    /\ cpc' = "write"
    /\ UNCHANGED <<interrupted, proc, dpc, filled, sem, txSenders, txClosed,
                   recw, cache, mu, out, werr>>
    /\ UNCHANGED <<steVars, auxVars>>

\* The goroutine ends: cancel() and the deferred <-sem.
Release(n) ==
    /\ Running
    /\ reqs[n].st = "sent"
    /\ sem' = sem - 1
    /\ reqs' = [reqs EXCEPT ![n].st = "exit"]
    /\ UNCHANGED <<interrupted, proc, dpc, filled, txSenders, txClosed, cpc,
                   recw, cache, mu, out, werr>>
    /\ UNCHANGED <<steVars, auxVars>>

(***************************************************************************)
(* enqueueImageRequest, the consumer of dic.                               *)
(***************************************************************************)
\* for recw := range rx: the receive meets a sender parked on tx, which
\* resumes.
RangeRx(n) ==
    /\ Running
    /\ cpc = "range"
    /\ n \in txSenders
    /\ txSenders' = txSenders \ {n}
    /\ recw' = n
    /\ reqs' = [reqs EXCEPT ![n].late = interrupted]
    /\ cpc' = "wait"
    /\ dpc' = IF dpc = "sending" THEN "acquire" ELSE dpc
    /\ UNCHANGED <<interrupted, proc, filled, sem, txClosed, cache, mu, out, werr>>
    /\ UNCHANGED <<steVars, auxVars>>

\* for recw := range rx ends on the closed channel.
RangeRxClosed ==
    /\ Running
    /\ cpc = "range"
    /\ txClosed
    /\ cpc' = "returned"
    /\ UNCHANGED <<interrupted, proc, dpc, filled, sem, txSenders, txClosed,
                   reqs, recw, cache, mu, out, werr>>
    /\ UNCHANGED <<steVars, auxVars>>

\* Mutant of Skip: the record of a failed lookup is written as it is.
Skip_WritesAnyway ==
    /\ Running
    /\ cpc = "write"
    /\ reqs[recw].err # "nil"
    /\ out' = Append(out, [pos |-> recw, rec |-> reqs[recw].rec])
    /\ cpc' = "range"
    /\ recw' = 0
    /\ UNCHANGED <<interrupted, proc, dpc, filled, sem, txSenders, txClosed, reqs,
                   cache, mu, werr>>
    /\ UNCHANGED <<steVars, auxVars>>

\* recw.err != nil: the error is logged and the record is not written.
Skip ==
    /\ Running
    /\ cpc = "write"
    /\ reqs[recw].err # "nil"
    /\ cpc' = "range"
    /\ recw' = 0
    /\ UNCHANGED <<interrupted, proc, dpc, filled, sem, txSenders, txClosed,
                   reqs, cache, mu, out, werr>>
    /\ UNCHANGED <<steVars, auxVars>>

\* w.Write(recw.rec) and w.Flush() succeed: the record reaches stdout.
WriteRecord ==
    /\ Running
    /\ cpc = "write"
    /\ reqs[recw].err = "nil"
    /\ ~werr
    /\ out' = Append(out, [pos |-> recw, rec |-> reqs[recw].rec])
    /\ cpc' = "range"
    /\ recw' = 0
    /\ UNCHANGED <<interrupted, proc, dpc, filled, sem, txSenders, txClosed, reqs,
                   cache, mu, werr>>
    /\ UNCHANGED <<steVars, auxVars>>

\* w.Write(recw.rec) buffers the record and w.Flush() fails: the writer keeps
\* the error, which nothing reads; the record has not reached stdout.
WriteUnflushed ==
    /\ Running
    /\ cpc = "write"
    /\ reqs[recw].err = "nil"
    /\ ~werr
    /\ werr' = TRUE
    /\ cpc' = "range"
    /\ recw' = 0
    /\ UNCHANGED <<interrupted, proc, dpc, filled, sem, txSenders, txClosed, reqs,
                   cache, mu, out>>
    /\ UNCHANGED <<steVars, auxVars>>

\* w.Write(recw.rec) fails, at once or by the error the writer kept:
\* errc <- err, which has no buffer.
WriteFails ==
    /\ Running
    /\ cpc = "write"
    /\ reqs[recw].err = "nil"
    /\ cpc' = "errc"
    /\ UNCHANGED <<interrupted, proc, dpc, filled, sem, txSenders, txClosed, reqs,
                   recw, cache, mu, out, werr>>
    /\ UNCHANGED <<steVars, auxVars>>

(***************************************************************************)
(* The ring cache on its own: set and next called on it, call after call.  *)
(***************************************************************************)
\* The result lists ringCache.set is given: Run hands it what SearchImages
\* returned, and never an empty list.
RingResults == UNION {[1..n -> Links] : n \in 1..MaxRing}

\* The key the calls are made with.
RingKeys == {"a"}

\* The links of the ring of key k, in the ring's order (none: no ring).
LinksOf(m, k) == [i \in 1..Len(m[k].all) |-> m[k].all[i].image]

\* c.set(k, results), under the mutex.
CacheSet(k, results) ==
    /\ Running
    /\ mu = 0
    /\ cache' = ringCache_set(cache, k, results)
    /\ calls' = [calls EXCEPT ![k] = <<>>]
    /\ UNCHANGED <<interrupted, proc, dpc, filled, sem, txSenders, txClosed, reqs,
                   cpc, recw, mu, out, werr>>
    /\ UNCHANGED <<steVars, searchVars, mainVars, segVars, probeVars>>

\* c.next(k), under the mutex: ring and at are the links of the ring and its
\* index when the call is made, kind and image what comes of the call. The
\* division by zero ends the process; the scan that never ends keeps the
\* mutex.
CacheNext(k) ==
    /\ Running
    /\ mu = 0
    /\ Len(calls[k]) < MaxCalls
    /\ LET got == ringCache_next(cache, k)
       IN  /\ cache' = got.m
           /\ proc' = IF got.kind = "panic" THEN "panicked" ELSE proc
           /\ mu' = IF got.kind = "spin" THEN 1 ELSE mu
           /\ calls' = [calls EXCEPT ![k] =
                          Append(@, [kind |-> got.kind, image |-> got.image,
                                     ring |-> LinksOf(cache, k),
                                     at |-> cache[k].index])]
    /\ UNCHANGED <<interrupted, dpc, filled, sem, txSenders, txClosed, reqs, cpc,
                   recw, out, werr>>
    /\ UNCHANGED <<steVars, searchVars, mainVars, segVars, probeVars>>

(***************************************************************************)
(* The filters of the image search and the query SearchImages builds.      *)
(***************************************************************************)
\* url.Values{}.
NoValues == [p \in {} |-> ""]

\* url.Values.Set and url.Values.Del.
Values_Set(m, p, x) == [q \in DOMAIN m \cup {p} |-> IF q = p THEN x ELSE m[q]]

Values_Del(m, p) == [q \in DOMAIN m \ {p} |-> m[q]]

\* Mutant of FilterImgType: the value is set whatever it is.
FilterImgType_NoSwitch(s, m) == Values_Set(m, "imgType", s)

\* The function FilterImgType(s) returns, applied to m.
FilterImgType(s, m) ==
    IF s \in {"clipart", "face", "lineart", "news", "photo"}
    THEN Values_Set(m, "imgType", s)
    ELSE Values_Del(m, "imgType")

\* The function FilterImgSize(s) returns, applied to m.
FilterImgSize(s, m) ==
    IF s \in {"huge", "icon", "large", "medium", "small", "xlarge", "xxlarge"}
    THEN Values_Set(m, "imgSize", s)
    ELSE Values_Del(m, "imgSize")

\* flag.Parse() of main: t and s are what the command line gives, or stay
\* "undefined".
FlagParse(t, s) ==
    /\ fpc = "flags"
    /\ flagT' = t
    /\ flagS' = s
    /\ fpc' = "type"
    /\ UNCHANGED values
    /\ UNCHANGED <<steVars, iapVars, ringVars, mainVars, segVars, probeVars>>

\* SearchImages, for _, f := range opts: the first option of main.
ApplyImgType ==
    /\ fpc = "type"
    /\ values' = FilterImgType(flagT, values)
    /\ fpc' = "size"
    /\ UNCHANGED <<flagT, flagS>>
    /\ UNCHANGED <<steVars, iapVars, ringVars, mainVars, segVars, probeVars>>

\* SearchImages, for _, f := range opts: the second option of main.
ApplyImgSize ==
    /\ fpc = "size"
    /\ values' = FilterImgSize(flagS, values)
    /\ fpc' = "params"
    /\ UNCHANGED <<flagT, flagS>>
    /\ UNCHANGED <<steVars, iapVars, ringVars, mainVars, segVars, probeVars>>

\* SearchImages, the five v.Set that follow the options; the query of the
\* request is v.Encode().
SetParams(q) ==
    /\ fpc = "params"
    /\ values' = Values_Set(Values_Set(Values_Set(Values_Set(Values_Set(
                     values, "key", "Key"), "cx", "Cx"), "searchType", "image"),
                     "q", q), "prettyPrint", "false")
    /\ fpc' = "request"
    /\ UNCHANGED <<flagT, flagS>>
    /\ UNCHANGED <<steVars, iapVars, ringVars, mainVars, segVars, probeVars>>

\* The next call of SearchImages: v := url.Values{}.
NewValues ==
    /\ fpc = "request"
    /\ values' = NoValues
    /\ fpc' = "type"
    /\ UNCHANGED <<flagT, flagS>>
    /\ UNCHANGED <<steVars, iapVars, ringVars, mainVars, segVars, probeVars>>

(***************************************************************************)
(* The transcriber's main in file mode, with its progress writer.          *)
(***************************************************************************)
\* strings.Contains(cmd, "cancel").
ContainsCancel(cmd) == cmd \in {"cancel", "do cancel now"}

\* Done() of the context makeProgressWriter derives from the one of main.
PwCtxDone == pwCancelled \/ rootDone

\* flag.Parse() of main, without the flag s: file mode.
MainFlagParse(path) ==
    /\ mpc = "flags"
    /\ spFlag' = path
    /\ mpc' = "makepw"
    /\ UNCHANGED <<rootDone, pwCancelled, bridge, updates, cmds>>
    /\ UNCHANGED <<steVars, iapVars, ringVars, searchVars, segVars, probeVars>>

\* The goroutine of main that waits for os.Interrupt calls cancel().
Signal ==
    /\ mpc \in {"flags", "makepw", "transcribe"}
    /\ ~rootDone
    /\ rootDone' = TRUE
    /\ UNCHANGED <<spFlag, mpc, pwCancelled, bridge, updates, cmds>>
    /\ UNCHANGED <<steVars, iapVars, ringVars, searchVars, segVars, probeVars>>

\* makeProgressWriter(ctx, *sp): a context is derived from ctx and its cancel
\* is what the bridge's command handler gets; main keeps ctx and gives it to
\* transcribeFile.
makeProgressWriter ==
    /\ mpc = "makepw"
    /\ bridge' = IF spFlag \in {"-", "", "/dev/null", "null", "discard"}
                 THEN "none" ELSE "open"
    /\ mpc' = "transcribe"
    /\ UNCHANGED <<spFlag, rootDone, pwCancelled, updates, cmds>>
    /\ UNCHANGED <<steVars, iapVars, ringVars, searchVars, segVars, probeVars>>

\* makeProgressWriter, NewUnixCommBridge fails: main calls os.Exit(-1).
makeProgressWriterFails ==
    /\ mpc = "makepw"
    /\ spFlag \notin {"-", "", "/dev/null", "null", "discard"}
    /\ mpc' = "exited"
    /\ UNCHANGED <<spFlag, rootDone, pwCancelled, bridge, updates, cmds>>
    /\ UNCHANGED <<steVars, iapVars, ringVars, searchVars, segVars, probeVars>>

\* The handler makeOnCommandOption gives the bridge: a command that holds
\* "cancel" calls the cancel it was given and closes the bridge.
OnCommand(cmd) ==
    /\ mpc = "transcribe"
    /\ bridge = "open"
    /\ ~PwCtxDone
    /\ Len(cmds) < MaxCmds
    /\ cmds' = Append(cmds, cmd)
    /\ pwCancelled' = (pwCancelled \/ ContainsCancel(cmd))
    /\ bridge' = IF ContainsCancel(cmd) THEN "closed" ELSE bridge
    /\ UNCHANGED <<spFlag, mpc, rootDone, updates>>
    /\ UNCHANGED <<steVars, iapVars, ringVars, searchVars, segVars, probeVars>>

\* br.Open(ctx) ends when the derived context is done.
BridgeCtxDone ==
    /\ bridge = "open"
    /\ PwCtxDone
    /\ bridge' = "closed"
    /\ UNCHANGED <<spFlag, mpc, rootDone, pwCancelled, updates, cmds>>
    /\ UNCHANGED <<steVars, iapVars, ringVars, searchVars, segVars, probeVars>>

\* TranscribeFile(ctx, req, f) goes one step on and calls f, whose result it
\* does not look at.
WriteProgressUpdate ==
    /\ mpc = "transcribe"
    /\ ~rootDone
    /\ updates < MaxUpdates
    /\ updates' = updates + 1
    /\ UNCHANGED <<spFlag, mpc, rootDone, pwCancelled, bridge, cmds>>
    /\ UNCHANGED <<steVars, iapVars, ringVars, searchVars, segVars, probeVars>>

\* TranscribeFile finds ctx done and returns its error: transcribeFile calls
\* os.Exit(-1).
TranscribeFileCancelled ==
    /\ mpc = "transcribe"
    /\ rootDone
    /\ mpc' = "exited"
    /\ UNCHANGED <<spFlag, rootDone, pwCancelled, bridge, updates, cmds>>
    /\ UNCHANGED <<steVars, iapVars, ringVars, searchVars, segVars, probeVars>>

\* TranscribeFile returns the records, transcribeFile writes them and main
\* returns: the deferred cancel of the progress writer (cancel, br.Close)
\* and the deferred cancel of ctx run.
TranscribeFileReturns ==
    /\ mpc = "transcribe"
    /\ updates = MaxUpdates
    /\ mpc' = "returned"
    /\ pwCancelled' = TRUE
    /\ bridge' = IF bridge = "open" THEN "closed" ELSE bridge
    /\ rootDone' = TRUE
    /\ UNCHANGED <<spFlag, updates, cmds>>
    /\ UNCHANGED <<steVars, iapVars, ringVars, searchVars, segVars, probeVars>>

(***************************************************************************)
(* parseSegmentList of the ffmpeg package.                                 *)
(***************************************************************************)
Digits == {"0", "1", "2", "3", "4", "5", "6", "7", "8", "9"}

DigitVal(c) ==
    CASE c = "0" -> 0 [] c = "1" -> 1 [] c = "2" -> 2 [] c = "3" -> 3
      [] c = "4" -> 4 [] c = "5" -> 5 [] c = "6" -> 6 [] c = "7" -> 7
      [] c = "8" -> 8 [] c = "9" -> 9

RECURSIVE leadingInt(_, _)
\* time.ParseDuration, the digits at the head of s: their value, the rest.
leadingInt(s, x) ==
    IF s # <<>> /\ Head(s) \in Digits
    THEN leadingInt(Tail(s), x * 10 + DigitVal(Head(s)))
    ELSE [x |-> x, rem |-> s]

RECURSIVE leadingFraction(_, _, _)
\* time.ParseDuration, the digits after the point: value, scale, the rest.
leadingFraction(s, x, scale) ==
    IF s # <<>> /\ Head(s) \in Digits
    THEN leadingFraction(Tail(s), x * 10 + DigitVal(Head(s)), scale * 10)
    ELSE [x |-> x, scale |-> scale, rem |-> s]

RECURSIVE unitOf(_, _)
\* time.ParseDuration, the unit: what comes before the next point or digit.
unitOf(s, u) ==
    IF s # <<>> /\ Head(s) # "." /\ Head(s) \notin Digits
    THEN unitOf(Tail(s), Append(u, Head(s)))
    ELSE [u |-> u, rem |-> s]

\* The unitMap of time.ParseDuration, in nanoseconds.
Units == {<<"n", "s">>, <<"u", "s">>, <<"m", "s">>, <<"s">>, <<"m">>, <<"h">>}

unitMap(u) ==
    CASE u = <<"n", "s">> -> 1
      [] u = <<"u", "s">> -> 1000
      [] u = <<"m", "s">> -> 1000000
      [] u = <<"s">> -> 1000000000
      [] u = <<"m">> -> 60 * 1000000000
      [] u = <<"h">> -> 3600 * 1000000000

NoDuration == [ok |-> FALSE, d |-> 0]

RECURSIVE parseTerms(_, _)
\* time.ParseDuration, the loop over the terms of s, d being the sum so far.
\* (The fraction f of a term adds f * (unit / scale); scale divides unit for
\* the fractions of at most nine digits.)
parseTerms(s, d) ==
    IF s = <<>> THEN [ok |-> TRUE, d |-> d]
    ELSE IF ~(Head(s) = "." \/ Head(s) \in Digits) THEN NoDuration
    ELSE LET a == leadingInt(s, 0)
             pre == a.rem # s
             dot == a.rem # <<>> /\ Head(a.rem) = "."
             b == IF dot THEN leadingFraction(Tail(a.rem), 0, 1)
                  ELSE [x |-> 0, scale |-> 1, rem |-> a.rem]
             post == dot /\ b.rem # Tail(a.rem)
             u == unitOf(b.rem, <<>>)
         IN  IF ~pre /\ ~post THEN NoDuration
             ELSE IF u.u \notin Units THEN NoDuration
             ELSE parseTerms(u.rem, d + a.x * unitMap(u.u)
                                      + b.x * (unitMap(u.u) \div b.scale))

\* time.ParseDuration(s), s given character by character: whether it parses,
\* and the nanoseconds.
ParseDuration(s) ==
    LET neg == s # <<>> /\ Head(s) = "-"
        body == IF s # <<>> /\ Head(s) \in {"-", "+"} THEN Tail(s) ELSE s
    IN  IF body = <<"0">> THEN [ok |-> TRUE, d |-> 0]
        ELSE IF body = <<>> THEN NoDuration
        ELSE LET r == parseTerms(body, 0)
             IN  IF neg THEN [r EXCEPT !.d = 0 - @] ELSE r

\* filepath.Join(dir, name): the elements that are not empty, with a
\* separator between them, cleaned.
Join(dir, name) ==
    IF dir = "" \/ dir = "." THEN name
    ELSE IF name = "" THEN dir
    ELSE dir \o "/" \o name

\* Mutant of Seg: Start and End are read from each other's column.
Seg_Swapped(i, rec, dir) ==
    [Index |-> i, Name |-> Join(dir, rec[1]),
     Start |-> ParseDuration(Append(rec[3], "s")).d,
     End |-> ParseDuration(Append(rec[2], "s")).d]

\* &Seg{Index: i, Name: ..., Start: start, End: end} of record v.
Seg(i, rec, dir) ==
    [Index |-> i, Name |-> Join(dir, rec[1]),
     Start |-> ParseDuration(Append(rec[2], "s")).d,
     End |-> ParseDuration(Append(rec[3], "s")).d]

\* The call parseSegmentList(src, dir), src holding the records recs.
SegInput(recs, dir) ==
    /\ spc = "input"
    /\ segIn' = recs
    /\ segDir' = dir
    /\ spc' = "read"
    /\ UNCHANGED <<acc, segErr, segI>>
    /\ UNCHANGED <<steVars, iapVars, ringVars, searchVars, mainVars, probeVars>>

\* r.ReadAll() with r.FieldsPerRecord = 3: a record of any other number of
\* fields is an error.
ReadAll ==
    /\ spc = "read"
    /\ IF \E k \in 1..Len(segIn) : Len(segIn[k]) # 3
       THEN /\ segErr' = "unable to read segment records"
            /\ spc' = "returned"
       ELSE /\ segErr' = segErr
            /\ spc' = "loop"
    /\ UNCHANGED <<segIn, segDir, acc, segI>>
    /\ UNCHANGED <<steVars, iapVars, ringVars, searchVars, mainVars, probeVars>>

\* One turn of for i, v := range recs: both durations are parsed and the
\* segment is stored, or the error is returned with no segment.
ParseRecord ==
    /\ spc = "loop"
    /\ segI < Len(segIn)
    /\ LET rec == segIn[segI + 1]
           start == ParseDuration(Append(rec[2], "s"))
           end == ParseDuration(Append(rec[3], "s"))
       IN  IF ~start.ok \/ ~end.ok
           THEN /\ segErr' = IF ~start.ok THEN "unable to parse start duration"
                             ELSE "unable to parse end duration"
                /\ acc' = <<>>
                /\ spc' = "returned"
                /\ segI' = segI
           ELSE /\ acc' = Append(acc, Seg(segI, rec, segDir))
                /\ segI' = segI + 1
                /\ UNCHANGED <<segErr, spc>>
    /\ UNCHANGED <<segIn, segDir>>
    /\ UNCHANGED <<steVars, iapVars, ringVars, searchVars, mainVars, probeVars>>

\* return acc, nil.
SegReturn ==
    /\ spc = "loop"
    /\ segI = Len(segIn)
    /\ spc' = "returned"
    /\ UNCHANGED <<segIn, segDir, acc, segErr, segI>>
    /\ UNCHANGED <<steVars, iapVars, ringVars, searchVars, mainVars, probeVars>>

(***************************************************************************)
(* The liveness probe on its own: one HEAD request and its verdict.        *)
(***************************************************************************)
\* fastClient.Head(link) returns a response.
HeadResponds(status, ctype) ==
    /\ hpc = "head"
    /\ head' = [err |-> FALSE, status |-> status, ctype |-> ctype]
    /\ hpc' = "classify"
    /\ UNCHANGED verdict
    /\ UNCHANGED <<steVars, iapVars, ringVars, searchVars, mainVars, segVars>>

\* fastClient.Head(link) returns an error: discard returns true at once.
HeadFails ==
    /\ hpc = "head"
    /\ head' = NoResponse
    /\ verdict' = discardResponse(NoResponse)
    /\ hpc' = "done"
    /\ UNCHANGED <<steVars, iapVars, ringVars, searchVars, mainVars, segVars>>

\* discard closes the body and classifies the response.
Classify ==
    /\ hpc = "classify"
    /\ verdict' = discardResponse(head)
    /\ hpc' = "done"
    /\ UNCHANGED head
    /\ UNCHANGED <<steVars, iapVars, ringVars, searchVars, mainVars, segVars>>

(***************************************************************************)
(* The specifications.                                                     *)
(***************************************************************************)
\* handleSSearch has made its channels and started enqueueImageRequest.
PipelineInit ==
    /\ interrupted = FALSE
    /\ proc = "running"
    /\ dpc = "select"
    /\ filled = 0
    /\ sem = 0
    /\ txSenders = {}
    /\ txClosed = FALSE
    /\ reqs = <<>>
    /\ cpc = "range"
    /\ recw = 0
    /\ cache = [q \in Queries |-> NoRing]
    /\ mu = 0
    /\ out = <<>>
    /\ werr = FALSE
    /\ calls = [q \in Queries |-> <<>>]
    /\ flagT = "undefined"
    /\ flagS = "undefined"
    /\ values = [p \in {} |-> ""]
    /\ fpc = "flags"
    /\ spFlag = ""
    /\ mpc = "flags"
    /\ rootDone = FALSE
    /\ pwCancelled = FALSE
    /\ bridge = "none"
    /\ updates = 0
    /\ cmds = <<>>
    /\ segIn = <<>>
    /\ segDir = ""
    /\ acc = <<>>
    /\ segErr = "nil"
    /\ segI = 0
    /\ spc = "input"
    /\ head = NoResponse
    /\ verdict = "none"
    /\ hpc = "head"

\* The stream after Open: both channels made, the loop about to call
\* sessLoop; the pipeline as handleSSearch starts it.
Init ==
    /\ PipelineInit
    /\ ctxErr = "nil"
    /\ timeshiftOffset = 0
    /\ err = "nil"
    /\ rxClosed = FALSE
    /\ rxCloses = 0
    /\ tx = <<>>
    /\ pc = "open"
    /\ sessions = <<>>
    /\ rr = NoRec
    /\ retErr = "nil"
    /\ nwrites = 0
    /\ rxLog = <<>>
    /\ sendLog = <<>>
    /\ accepted = <<>>

Responses == {<<w>> : w \in Words} \cup {<<v, w>> : v \in Words, w \in Words}

SessLoopStep ==
    \/ OpenSession
    \/ OpenSessionFails
    \/ SelectDone
    \/ SelectDoneFails
    \/ SelectRecv
    \/ SelectRxClosed
    \/ SelectTx
    \/ SelectTxFails
    \/ Forward
    \/ DrainRecv
    \/ DrainForward
    \/ DrainEnd
    \/ AfterSessLoop

Next ==
    \/ \E n \in BufSizes : Write(n)
    \/ Cancel
    \/ Timeout
    \/ \E k \in 1..Len(sessions) : \E ws \in Responses : Recv(k, ws)
    \/ \E k \in 1..Len(sessions) : RecvErr(k)
    \/ SessLoopStep

Spec == Init /\ [][Next]_vars

PipelineNext ==
    \/ Interrupt
    \/ LoopCtxDone
    \/ LoopErrc
    \/ LoopDefault
    \/ \E rec \in Records : ReadRecord(rec)
    \/ ReadEnds
    \/ SendTx
    \/ Acquire
    \/ FillSem
    \/ Returns
    \/ MainReturns
    \/ \E n \in 1..Len(reqs) : RunNoColumn(n)
    \/ \E n \in 1..Len(reqs) : RunNext(n)
    \/ \E n \in 1..Len(reqs) : \E items \in Results : SearchImages(n, items)
    \/ \E n \in 1..Len(reqs) : SearchImagesFails(n)
    \/ \E n \in 1..Len(reqs) : RunSet(n)
    \/ \E n \in 1..Len(reqs) : RunNextAgain(n)
    \/ \E n \in 1..Len(reqs) : Wait(n)
    \/ \E n \in 1..Len(reqs) : Release(n)
    \/ \E n \in 1..Len(reqs) : RangeRx(n)
    \/ RangeRxClosed
    \/ Skip
    \/ WriteRecord
    \/ WriteUnflushed
    \/ WriteFails

\* The image-annotation pipeline of dic.
PipelineSpec == Init /\ [][PipelineNext]_vars

\* The steps of the session loop in which no call on the remote fails.
RingNext ==
    \/ \E k \in RingKeys : \E results \in RingResults : CacheSet(k, results)
    \/ \E k \in RingKeys : CacheNext(k)

RingSpec == Init /\ [][RingNext]_vars

\* set and next called with any key and any result list, the empty one
\* included.
CacheStep ==
    \/ \E k \in Queries : \E results \in Results : CacheSet(k, results)
    \/ \E k \in Queries : CacheNext(k)

CacheSpec == Init /\ [][CacheStep]_vars

SearchNext ==
    \/ \E t \in TypeArgs : \E s \in SizeArgs : FlagParse(t, s)
    \/ ApplyImgType
    \/ ApplyImgSize
    \/ \E q \in Queries : SetParams(q)
    \/ NewValues

SearchSpec == Init /\ [][SearchNext]_vars

MainNext ==
    \/ \E path \in Paths : MainFlagParse(path)
    \/ Signal
    \/ makeProgressWriter
    \/ makeProgressWriterFails
    \/ \E cmd \in Commands : OnCommand(cmd)
    \/ BridgeCtxDone
    \/ WriteProgressUpdate
    \/ TranscribeFileCancelled
    \/ TranscribeFileReturns

MainSpec == Init /\ [][MainNext]_vars

SegLists == UNION {[1..n -> SegRecords] : n \in 0..MaxSegs}

SegNext ==
    \/ \E recs \in SegLists : \E dir \in SegDirs : SegInput(recs, dir)
    \/ ReadAll
    \/ ParseRecord
    \/ SegReturn

SegSpec == Init /\ [][SegNext]_vars

ProbeNext ==
    \/ \E status \in Statuses, ctype \in ContentTypes :
           HeadResponds(status, ctype)
    \/ HeadFails
    \/ Classify

\* One call of discard, on every answer to the HEAD request.
ProbeSpec == Init /\ [][ProbeNext]_vars

SessLoopProgress ==
    \/ OpenSession
    \/ SelectDone
    \/ SelectRecv
    \/ SelectRxClosed
    \/ SelectTx
    \/ Forward
    \/ DrainRecv
    \/ DrainForward
    \/ DrainEnd
    \/ AfterSessLoop

\* The remote ends a stream whose send side was half-closed.
RemoteCloses ==
    \E k \in 1..Len(sessions) :
        sessions[k].sstream = "halfclosed" /\ RecvErr(k)

\* The goroutine of the session loop is scheduled and the consumer keeps
\* reading rx (Forward and DrainForward meet it); select takes a case that
\* stays ready; the remote closes its side after a half-close.
FairSpec ==
    /\ Spec
    /\ WF_vars(SessLoopProgress)
    /\ SF_vars(SelectDone)
    /\ WF_vars(RemoteCloses)


(***************************************************************************)
(* Properties of the image-annotation pipeline.                            *)
(***************************************************************************)
\* C1: the records on stdout are in the order of their input positions: a
\* record is written before every written record of a later position.
C1_OutputInInputOrder ==
    \A i, j \in 1..Len(out) : i < j => out[i].pos < out[j].pos

\* Two records with the same query were written: the lookup of the first
\* went through the search, the second was served from the ring it stored.
C1_Witness ==
    /\ Len(out) = 2
    /\ out[1].pos = 1
    /\ out[2].pos = 2
    /\ Key(out[1]) = Key(out[2])

\* The requests whose goroutine exists and has not released its token.
Alive ==
    {n \in 1..Len(reqs) :
        reqs[n].st \in {"run", "search", "found", "set", "done", "sent", "spin"}}

\* C11: every worker alive holds a token of sem, which holds besides them
\* only the tokens of the closing loop, and never more than maxcc: at most
\* maxcc workers are alive.
C11_WorkersHoldSlots ==
    /\ Cardinality(Alive) + filled = sem
    /\ sem <= maxcc
    /\ Cardinality(Alive) <= maxcc

\* A worker is alive on the token that the worker before it released.
C11_Witness ==
    /\ Len(reqs) = 2
    /\ reqs[1].st = "exit"
    /\ 2 \in Alive
    /\ sem = 1

\* C12: no record on stdout belongs to a request that carries an error; the
\* step in which the consumer meets such a request writes nothing, takes the
\* consumer back to its receive and leaves the dispatcher and the process as
\* they are.
C12_FailedLookupSkipped ==
    /\ [](\A i \in 1..Len(out) : reqs[out[i].pos].err = "nil")
    /\ [][(cpc = "write" /\ reqs[recw].err # "nil" /\ cpc' # cpc) =>
              /\ cpc' = "range"
              /\ out' = out
              /\ dpc' = dpc
              /\ proc' = proc
              /\ txClosed' = txClosed]_vars

\* The search of record 1 returned no item and the record was skipped;
\* record 2 was then dispatched, looked up and written.
C12_Witness ==
    /\ Len(reqs) = 2
    /\ reqs[1].err = "no results"
    /\ Len(out) = 1
    /\ out[1].pos = 2

\* C13: after a failed write the consumer, sending on errc, and the
\* dispatcher, sending on tx, are never blocked on each other.
C13_SinkFailureNeverBlocks == ~(cpc = "errc" /\ dpc = "sending")

\* C14: when handleSSearch has returned, the writer having met no failure,
\* the consumer holds no request whose lookup succeeded and whose record is
\* still to be written.
C14_WrittenBeforeReturn ==
    (dpc = "returned" /\ ~werr) => ~(cpc = "write" /\ reqs[recw].err = "nil")

\* C15 as stated: no request is handed to the consumer or to a worker with
\* the outer context already cancelled.
C15_NoAdmissionAfterCancel ==
    \A n \in 1..Len(reqs) : ~reqs[n].late

\* A step taken once handleSSearch has left its input loop: nothing is read,
\* handed over or started.
NothingAdmitted ==
    /\ dpc' \in {"fill", "returned"}
    /\ Len(reqs') = Len(reqs)
    /\ txSenders = {}
    /\ txSenders' = {}
    /\ \A n \in 1..Len(reqs) :
           reqs'[n].late = reqs[n].late /\ reqs[n].st # "new"

\* C15 as amended: only the request of the iteration that was under way at
\* the cancellation is handed over after it, so at most one, and no record
\* is read after that one; the select at the top of the loop, reached with
\* the context cancelled, leaves the loop; once the loop is left nothing is
\* read, handed over or started.
C15_OneAdmissionAfterCancel ==
    /\ [](\A n \in 1..Len(reqs) :
              reqs[n].late => /\ n = Len(reqs)
                              /\ interrupted
                              /\ dpc \in {"acquire", "select", "fill", "returned"})
    /\ [][(dpc = "select" /\ interrupted /\ dpc' # dpc) => dpc' = "fill"]_vars
    /\ [][(dpc \in {"fill", "returned"}) => NothingAdmitted]_vars

\* The context was cancelled after the dispatcher had passed its select:
\* record 2 was still read, handed over, looked up and written, and the
\* dispatcher then left its loop.
C15_Witness ==
    /\ Len(reqs) = 2
    /\ ~reqs[1].late
    /\ reqs[2].late
    /\ dpc = "fill"
    /\ \E i \in 1..Len(out) : out[i].pos = 2

\* Whether the consumer is done with request n.
Consumed(n) == reqs[n].st \in {"sent", "exit"} /\ recw # n

\* C16 as stated: a request whose lookup failed, once the consumer is done
\* with it, is on stdout with an empty link as its last field.
C16_FailedLookupEmittedEmpty ==
    \A n \in 1..Len(reqs) :
        (Consumed(n) /\ reqs[n].err # "nil" /\ ~werr) =>
            \E i \in 1..Len(out) :
                /\ out[i].pos = n
                /\ out[i].rec[Len(out[i].rec)] = ""

\* C16 as amended: every record on stdout is the record of its request with
\* one field after the query, a link that is not empty; a request to whose
\* record Run appended the empty link carries an error, and no record of it
\* is on stdout.
C16_OnlyLinkedRecordsEmitted ==
    /\ \A i \in 1..Len(out) :
           /\ out[i].rec = reqs[out[i].pos].rec
           /\ Len(out[i].rec) = column + 2
           /\ out[i].rec[column + 2] # ""
    /\ \A n \in 1..Len(reqs) :
           (Len(reqs[n].rec) = column + 2 /\ reqs[n].rec[column + 2] = "") =>
               /\ reqs[n].err \in {"no results", "cache inconsistency"}
               /\ \A i \in 1..Len(out) : out[i].pos # n

\* The search of record 1 returned no item: Run appended the empty link, the
\* consumer dropped the record; record 2 is on stdout with its link.
C16_Witness ==
    /\ Len(reqs) = 2
    /\ Consumed(1)
    /\ Len(reqs[1].rec) = column + 2
    /\ reqs[1].rec[column + 2] = ""
    /\ \E i \in 1..Len(out) : out[i].pos = 2

\* Whether every link of the ring fails the probe.
NoneValid(ring) == \A i \in 1..Len(ring) : ring[i] \in Broken

\* C17: a next call on a ring that has entries, none of which passes the
\* probe, returns a miss, and the key has no ring after it.
C17_ExhaustedRingIsMiss ==
    \A k \in Queries : \A j \in 1..Len(calls[k]) :
        (Len(calls[k][j].ring) > 0 /\ NoneValid(calls[k][j].ring)) =>
            /\ calls[k][j].kind = "nil"
            /\ j = Len(calls[k]) => cache[k] = NoRing

\* C18: the image a next call returns is an entry of the ring of the key,
\* and its link passes the probe.
C18_ReturnedImageProbed ==
    \A k \in Queries : \A j \in 1..Len(calls[k]) :
        calls[k][j].kind = "image" =>
            /\ \E i \in 1..Len(calls[k][j].ring) :
                   calls[k][j].ring[i] = calls[k][j].image
            /\ calls[k][j].image \notin Broken

\* A next call went past an entry that fails the probe and returned the
\* entry after it.
C18_Witness ==
    \E k \in Queries : \E j \in 1..Len(calls[k]) :
        /\ calls[k][j].kind = "image"
        /\ calls[k][j].at = 0
        /\ calls[k][j].ring[1] \in Broken
        /\ calls[k][j].image = calls[k][j].ring[2]

\* Whether every link of the ring passes the probe.
AllValid(ring) == \A i \in 1..Len(ring) : ring[i] \notin Broken

\* C19: on a ring of n entries, all of them valid, a next call made with the
\* cursor at i returns the entry at i, and the call after it is made with the
\* cursor at (i + 1) mod n.
C19_RoundRobin ==
    \A k \in Queries : \A j \in 1..Len(calls[k]) :
        LET c == calls[k][j]
            n == Len(c.ring)
        IN  (n > 0 /\ AllValid(c.ring)) =>
                /\ c.kind = "image"
                /\ c.image = c.ring[c.at + 1]
                /\ j < Len(calls[k]) => calls[k][j + 1].at = (c.at + 1) % n

\* Whether the link passes the probe.
Valid(link) == link \notin Broken

\* C20: the calls made on a ring since its set go through the valid entries
\* of the ring in the ring's order, again and again: the j-th call returns
\* the valid entry of rank ((j - 1) mod v) + 1, v being how many are valid.
C20_CyclesThroughValid ==
    \A k \in Queries : \A j \in 1..Len(calls[k]) :
        LET c == calls[k][j]
            ok == SelectSeq(c.ring, Valid)
        IN  Len(ok) > 0 =>
                /\ c.kind = "image"
                /\ c.image = ok[((j - 1) % Len(ok)) + 1]

\* C21: an entry a next call has probed is marked checked, so that no later
\* call probes it again: once the call has returned, an entry that holds the
\* result of a probe (only a probe makes valid true) has checked true.
C21_ProbedEntryIsChecked ==
    \A k \in Queries : \A i \in 1..Len(cache[k].all) :
        (Running /\ mu = 0 /\ cache[k].all[i].valid) => cache[k].all[i].checked

\* What a set(k, results) step leaves in the map.
SetEffect(k, results) ==
    /\ cache'[k].index = 0
    /\ Len(cache'[k].all) = Len(results)
    /\ \A i \in 1..Len(results) :
           /\ cache'[k].all[i].image = results[i]
           /\ ~cache'[k].all[i].checked
           /\ ~cache'[k].all[i].valid
    /\ \A q \in Queries \ {k} : cache'[q] = cache[q]

\* C22: set(k, results) leaves for k a ring of exactly the results, in their
\* order, cursor 0, every entry unchecked and not valid, whatever k had
\* before; the ring of every other key is as it was.
C22_SetReplacesRing ==
    [][\A k \in Queries : \A results \in Results :
           CacheSet(k, results) => SetEffect(k, results)]_vars

\* The ring of "a" is fresh from a set while "b" keeps the ring a next call
\* has moved on.
C22_Witness ==
    /\ cache["a"] = imageRing(<<"u1", "u2">>)
    /\ calls["a"] = <<>>
    /\ Len(calls["b"]) = 1
    /\ cache["b"].index = 1
    /\ cache["b"].all[1].valid

\* C23: a next call on a key whose ring has no entry, or that has no ring,
\* reports a miss, and the key has no ring after it.
C23_EmptyRingIsMiss ==
    \A k \in Queries : \A j \in 1..Len(calls[k]) :
        Len(calls[k][j].ring) = 0 =>
            /\ calls[k][j].kind = "nil"
            /\ calls[k][j].image = ""
            /\ j = Len(calls[k]) => cache[k] = NoRing

\* set("a", []) was followed by two next calls: the first found the ring
\* without entries, the second found no ring; "a" has no ring.
C23_Witness ==
    /\ Len(calls["a"]) = 2
    /\ calls["a"][1].at = 0
    /\ calls["a"][1].kind = "nil"
    /\ calls["a"][2].at = NoRing.index
    /\ calls["a"][2].kind = "nil"
    /\ cache["a"] = NoRing

\* The recognized values of the two filters.
ImgTypes == {"clipart", "face", "lineart", "news", "photo"}

ImgSizes == {"huge", "icon", "large", "medium", "small", "xlarge", "xxlarge"}

\* Whether the values hold parameter p exactly when x is one of the
\* recognized values, and then with x as its value.
SetIffRecognized(p, x, recognized) ==
    /\ p \in DOMAIN values <=> x \in recognized
    /\ p \in DOMAIN values => values[p] = x

\* C24: once an option of SearchImages has been applied, and in the query of
\* the request, imgType (imgSize) is present exactly when the value given to
\* the filter is a recognized one, and is that value.
C24_FilterSetIffRecognized ==
    /\ fpc \in {"size", "params", "request"} =>
           SetIffRecognized("imgType", flagT, ImgTypes)
    /\ fpc \in {"params", "request"} =>
           SetIffRecognized("imgSize", flagS, ImgSizes)

\* A request made with a recognized type and a size that is not one.
C24_Witness ==
    /\ fpc = "request"
    /\ flagT = "photo"
    /\ flagS = "XL"
    /\ values["imgType"] = "photo"
    /\ "imgSize" \notin DOMAIN values
    /\ values["q"] = "a"

\* C27: once the bridge has handled a command that holds "cancel", the
\* context of main, under which TranscribeFile runs, is cancelled.
C27_CancelCommandCancelsRoot ==
    (\E i \in 1..Len(cmds) : ContainsCancel(cmds[i])) => rootDone

\* The texts that are decimal numbers of seconds, with their nanoseconds.
IsSeconds(t) ==
    t \in {<<"0", ".", "0", "0", "0", "0", "0", "0">>,
           <<"1", ".", "0", "0", "0", "0", "0", "1">>,
           <<"2">>}

Nanoseconds(t) ==
    CASE t = <<"0", ".", "0", "0", "0", "0", "0", "0">> -> 0
      [] t = <<"1", ".", "0", "0", "0", "0", "0", "1">> -> 1000001000
      [] t = <<"2">> -> 2000000000

\* Whether every record of the list has a name and two numbers of seconds.
WellFormed(recs) ==
    \A k \in 1..Len(recs) :
        Len(recs[k]) = 3 /\ IsSeconds(recs[k][2]) /\ IsSeconds(recs[k][3])

\* C28: parseSegmentList returns without error on a list whose records are
\* a name and two numbers of seconds; what it returns without error is one
\* segment per record, in the order of the list, the k-th with Index k
\* (from 0), the name joined to the directory, and the second and third
\* columns as the seconds of Start and End.
C28_OneSegmentPerRecord ==
    spc = "returned" =>
        /\ WellFormed(segIn) => segErr = "nil"
        /\ segErr = "nil" =>
               /\ Len(acc) = Len(segIn)
               /\ \A k \in 1..Len(segIn) :
                      /\ acc[k].Index = k - 1
                      /\ acc[k].Name = Join(segDir, segIn[k][1])
                      /\ IsSeconds(segIn[k][2]) =>
                             acc[k].Start = Nanoseconds(segIn[k][2])
                      /\ IsSeconds(segIn[k][3]) =>
                             acc[k].End = Nanoseconds(segIn[k][3])

\* A list of two records in a directory was parsed.
C28_Witness ==
    /\ spc = "returned"
    /\ segErr = "nil"
    /\ segDir = "segs"
    /\ Len(acc) = 2
    /\ acc[2].Index = 1
    /\ acc[2].Name = "segs/output001.wav"
    /\ acc[2].Start = 1000001000
    /\ acc[2].End = 2000000000

\* The requests whose goroutine is in the SearchImages call for the query q.
Searching(q) ==
    {n \in 1..Len(reqs) : reqs[n].st = "search" /\ Key(reqs[n]) = q}

\* C34: at every moment at most one request of the pipeline is in the
\* upstream search for a given query.
C34_OneSearchPerQuery ==
    \A q \in Queries : Cardinality(Searching(q)) <= 1

\* Two records carry the same query; the first is in the upstream search
\* while the second has been read and waits to be handed over.
C34_Witness ==
    /\ Len(reqs) = 2
    /\ reqs[1].st = "search"
    /\ Len(reqs[2].rec) > column
    /\ Key(reqs[1]) = Key(reqs[2])
    /\ reqs[2].st = "new"
    /\ dpc = "sending"

\* The requests whose goroutine is in ImageRequest.Run, the deferred send on
\* r.done not yet taken.
InRun ==
    {n \in 1..Len(reqs) :
        reqs[n].st \in {"run", "search", "found", "set", "spin", "done"}}

\* C37: at most one worker is inside ImageRequest.Run at any moment, and the
\* worker of a request is started only after the workers of all the requests
\* before it have signalled completion on r.done.
C37_OneWorkerInRun ==
    /\ [](Cardinality(InRun) <= 1)
    /\ [][\A n \in 1..Len(reqs) :
              (reqs[n].st = "new" /\ reqs'[n].st = "run") =>
                  \A m \in 1..(n - 1) : reqs[m].st \in {"sent", "exit"}]_vars

\* The worker of the second request is in Run after the worker of the first
\* one signalled completion and before it has released its slot.
C37_Witness ==
    /\ Len(reqs) = 2
    /\ reqs[1].st = "sent"
    /\ reqs[2].st = "search"
    /\ sem = 2

\* C40: when handleSSearch has returned, its closing loop has put maxcc
\* tokens, the semaphore holds maxcc tokens, and the goroutine of every
\* request it made has ended.
C40_ReturnsAfterWorkersExit ==
    dpc = "returned" =>
        /\ filled = maxcc
        /\ sem = maxcc
        /\ \A n \in 1..Len(reqs) : reqs[n].st = "exit"

\* handleSSearch has returned after starting two workers.
C40_Witness ==
    /\ dpc = "returned"
    /\ Len(reqs) = 2
    /\ reqs[1].st = "exit"
    /\ reqs[2].st = "exit"
    /\ sem = maxcc
\* Whether the ring of the map m for the key k has an entry that passes the
\* probe.
HasValidEntry(m, k) ==
    \E i \in 1..Len(m[k].all) : ~discard(m[k].all[i].image)

\* C35: when the first cache lookup of a request is made with the cache
\* holding, for the request's query, a ring an earlier request stored and
\* that has a valid entry, the lookup is a hit: Run ends with a link of that
\* ring appended and no error, and the request never reaches the upstream
\* search.
C35_LaterRecordServedFromCache ==
    [][\A n \in 1..Len(reqs) :
          (/\ reqs[n].st = "run"
           /\ reqs'[n].st # "run"
           /\ Len(reqs[n].rec) > column
           /\ HasValidEntry(cache, Key(reqs[n]))) =>
              /\ reqs'[n].st = "done"
              /\ reqs'[n].err = "nil"
              /\ \E i \in 1..Len(cache[Key(reqs[n])].all) :
                     reqs'[n].rec =
                        Append(reqs[n].rec, cache[Key(reqs[n])].all[i].image)
              /\ ~discard(reqs'[n].rec[Len(reqs'[n].rec)])]_vars

\* The second of two records with the same query has been annotated from the
\* ring the lookup of the first one stored.
C35_Witness ==
    /\ Len(reqs) = 2
    /\ reqs[1].st \in {"sent", "exit"}
    /\ reqs[2].st = "done"
    /\ reqs[1].err = "nil"
    /\ reqs[2].err = "nil"
    /\ Len(reqs[2].rec) = 2
    /\ reqs[1].rec[1] = reqs[2].rec[1]
    /\ cache[reqs[2].rec[1]] # NoRing
\* C36: the cancellation of the context given to handleSSearch changes no
\* request; a lookup that is in the upstream search with that context
\* cancelled leaves the search only with the results, with an error of the
\* search itself or with the deadline of its own context, and no request ever
\* ends with the cancellation as its error.
C36_OuterCancelSparesLookups ==
    /\ [](\A n \in 1..Len(reqs) : reqs[n].err # "Canceled")
    /\ [][interrupted' # interrupted => reqs' = reqs]_vars
    /\ [][\A n \in 1..Len(reqs) :
              (interrupted /\ reqs[n].st = "search" /\ reqs'[n].st # "search") =>
                  \/ reqs'[n].st = "found" /\ reqs'[n].err = "nil"
                  \/ reqs'[n].st = "done" /\
                         reqs'[n].err \in {"no results", "search",
                                           "DeadlineExceeded"}]_vars

\* The context was cancelled after the request was handed over and its
\* worker started; the lookup has since ended with results.
C36_Witness ==
    /\ interrupted
    /\ Len(reqs) > 0
    /\ ~reqs[1].late
    /\ reqs[1].st = "found"
    /\ dpc \in {"fill", "returned"}
(***************************************************************************)
(* Properties of the transcription stream.                                 *)
(***************************************************************************)
\* Whether sessLoop has returned from session k.
Left(k) == k < Cur \/ pc \in {"ret", "open", "closed"}

\* Whether rx carried word i of session k with the times t.
Emitted(k, i, t) ==
    \E n \in 1..Len(rxLog) :
        /\ rxLog[n].sess = k
        /\ rxLog[n].idx = i
        /\ rxLog[n].start = t.start
        /\ rxLog[n].end = t.end

\* C2: once sessLoop has returned from a session it half-closed, every word
\* the remote delivered after the half-close has been sent on rx, shifted by
\* the offset that was in force at the half-close.
C2_TailDrainedWithOldOffset ==
    \A k \in 1..Len(sessions) :
        (sessions[k].closeOff >= 0 /\ Left(k)) =>
            \A i \in 1..Len(sessions[k].dlv) :
                sessions[k].dlv[i].tail =>
                    Emitted(k, i, ShiftTime(sessions[k].dlv[i].w,
                                            sessions[k].closeOff))

\* A session that followed one with audio was rotated, and a word delivered
\* after its half-close went through the drain.
C2_Witness ==
    \E k \in 1..Len(sessions) :
        /\ sessions[k].closeOff > 0
        /\ Left(k)
        /\ \E i \in 1..Len(sessions[k].dlv) : sessions[k].dlv[i].tail

RECURSIVE QuarterUsBefore(_)
\* The audio sent in the sessions before session k, in quarters of a
\* microsecond: bytes / 32000 s = 125 quarters per byte.
QuarterUsBefore(k) ==
    IF k <= 1 THEN 0
    ELSE 125 * sessions[k - 1].bytesSent + QuarterUsBefore(k - 1)

C4_OffsetNeverDecreases == [][timeshiftOffset' >= timeshiftOffset]_vars

\* Two sessions that both carried audio have ended: the offset was advanced
\* twice.
C4_Witness ==
    /\ Len(sessions) >= 2
    /\ Left(2)
    /\ sessions[1].bytesSent > 0
    /\ sessions[2].bytesSent > 0
    /\ timeshiftOffset > computeTimeshiftOffset(sessions[1].bytesSent)

C6_RxInDeliveryOrder ==
    \A m, n \in 1..Len(rxLog) :
        m < n => \/ rxLog[m].sess < rxLog[n].sess
                 \/ /\ rxLog[m].sess = rxLog[n].sess
                    /\ rxLog[m].idx < rxLog[n].idx

\* rx carried a record of one session and then a record of the next.
C6_Witness ==
    /\ Len(rxLog) >= 2
    /\ rxLog[1].sess < rxLog[2].sess

\* C7: when a session is opened, the listening goroutine of every session
\* before it has terminated.
C7_OneSessionAtATime ==
    \A k \in 1..Len(sessions) : k < Cur => sessions[k].lst = "closed"

\* C8: a failed open leaves timeshiftOffset and the sessions as they were;
\* the next step of the loop records the error and closes rx; after that no
\* session is opened.
C8_FailedOpenIsFatal ==
    /\ [][(retErr' = "fatal_open" /\ retErr # "fatal_open") =>
              /\ timeshiftOffset' = timeshiftOffset
              /\ sessions' = sessions]_vars
    /\ [][(retErr = "fatal_open" /\ pc' # pc) =>
              /\ pc' = "closed"
              /\ rxClosed'
              /\ err' = "fatal_open"]_vars
    /\ [](err = "fatal_open" => rxClosed /\ pc = "closed")
    /\ [][pc = "closed" =>
              /\ pc' = "closed"
              /\ Len(sessions') = Len(sessions)
              /\ UNCHANGED <<err, rxClosed, timeshiftOffset>>]_vars

\* An open failed after a session that carried audio, and rx is closed.
C8_Witness ==
    /\ err = "fatal_open"
    /\ rxClosed
    /\ Len(sessions) >= 1
    /\ timeshiftOffset > 0

\* C9 as stated: when rx is closed with the outer context cancelled, Err()
\* is the cancellation cause.
C9_ErrIsCancellationCause ==
    [][(~rxClosed /\ rxClosed' /\ ctxErr = "Canceled") => err' = "Canceled"]_vars

\* C9 as amended: after the cancellation rx is eventually closed; a drain
\* that ends under the cancelled context returns the cancellation cause, and
\* that cause, once returned, is what Err() holds when rx is closed; rx is
\* never closed with Err() nil.
C9_CancelClosesRx ==
    /\ (ctxErr = "Canceled") ~> rxClosed
    /\ [][(pc = "drain" /\ pc' = "ret" /\ ctxErr = "Canceled") =>
              retErr' = "Canceled"]_vars
    /\ [][(retErr = "Canceled" /\ pc' # pc) =>
              /\ rxClosed'
              /\ err' = "Canceled"]_vars
    /\ [](rxClosed => err # "nil")

\* The context was cancelled during a session, the session was drained and
\* rx was closed with the cancellation cause.
C9_Witness ==
    /\ rxClosed
    /\ err = "Canceled"
    /\ Len(sessions) >= 1
    /\ sessions[Cur].closeOff >= 0
    /\ ~sessions[Cur].afterCancel

\* C10: no session is opened once the outer context is cancelled.
C10_NoSessionAfterCancel ==
    \A k \in 1..Len(sessions) : ~sessions[k].afterCancel

\* C25: a Write of zero bytes returns, full tx or not, and changes nothing
\* but the count of calls: tx, the sends made to the remote and the sessions
\* with their bytesSent are as before; no buffer of zero bytes is ever in tx
\* or sent.
C25_EmptyWriteIsNoOp ==
    /\ [](/\ \A i \in 1..Len(tx) : tx[i].len > 0
          /\ \A i \in 1..Len(sendLog) : sendLog[i].buf.len > 0)
    /\ [][Write(0) => /\ tx' = tx
                      /\ sendLog' = sendLog
                      /\ sessions' = sessions
                      /\ timeshiftOffset' = timeshiftOffset
                      /\ accepted' = accepted]_vars

\* The second Write was of zero bytes and returned while the buffer of the
\* first filled tx.
C25_Witness ==
    /\ nwrites = 2
    /\ Len(tx) = txBuffSize
    /\ tx[1].id = 1
    /\ Len(accepted) = 1
    /\ accepted[1].id = 1

\* Whether the audio sent in session k lasts exactly the session timeout.
AtTimeout(k) == computeTimeshiftOffset(sessions[k].bytesSent) = sessionTimeout

RECURSIVE OffsetOf(_)
\* What the deferred function of sessLoop adds for the sessions 1..k.
OffsetOf(k) ==
    IF k = 0 THEN 0
    ELSE computeTimeshiftOffset(sessions[k].bytesSent) + OffsetOf(k - 1)

\* How many sessions sessLoop has returned from.
NLeft == IF Cur = 0 THEN 0 ELSE IF Left(Cur) THEN Cur ELSE Cur - 1

\* sessLoop is in a session whose audio has reached the session timeout and
\* whose send side is open. (The audio of a session never shrinks and the
\* next session starts with none: this ends only by the half-close, by a
\* failed send or by sessLoop leaving the session.)
DueAtTimeout ==
    IF Cur = 0 THEN FALSE
    ELSE /\ ~Left(Cur)
         /\ computeTimeshiftOffset(sessions[Cur].bytesSent) >= sessionTimeout
         /\ sessions[Cur].sstream = "open"

\* C26: a session whose audio reaches the session timeout has its deadline
\* context done, and while sessLoop is in it the half-close follows; a
\* session is half-closed once, from the select, and nothing is sent on it
\* afterwards; the offset holds the duration of each session sessLoop has
\* left once and of no other; a session is opened only after the one before
\* it was left, one at a time, and starts with no audio sent and its
\* deadline ahead.
C26_OneRotationAtTimeout ==
    /\ [](\A k \in 1..Len(sessions) :
             computeTimeshiftOffset(sessions[k].bytesSent) >= sessionTimeout =>
                 sessions[k].done)
    /\ [](timeshiftOffset = OffsetOf(NLeft))
    /\ [][\A k \in 1..Len(sessions) :
             /\ sessions[k].sstream = "halfclosed" =>
                    /\ sessions'[k].sstream = "halfclosed"
                    /\ sessions'[k].bytesSent = sessions[k].bytesSent
                    /\ sessions'[k].closeOff = sessions[k].closeOff
             /\ (sessions[k].sstream = "open" /\
                 sessions'[k].sstream = "halfclosed") =>
                    /\ k = Cur
                    /\ pc = "select"
                    /\ CtxDone
                    /\ timeshiftOffset' = timeshiftOffset]_vars
    /\ [][Len(sessions') # Len(sessions) =>
             /\ Len(sessions') = Len(sessions) + 1
             /\ pc = "open"
             /\ NLeft = Cur
             /\ sessions'[Cur + 1].bytesSent = 0
             /\ sessions'[Cur + 1].sstream = "open"
             /\ ~sessions'[Cur + 1].done]_vars
    /\ DueAtTimeout ~> ~DueAtTimeout

\* Session 1 was sent exactly the audio of the session timeout, was
\* half-closed and left with the outer context alive: the offset is that
\* timeout and session 2 is open, nothing sent on it, its deadline ahead.
C26_Witness ==
    /\ Len(sessions) = 2
    /\ AtTimeout(1)
    /\ sessions[1].sstream = "halfclosed"
    /\ sessions[1].closeOff = 0
    /\ timeshiftOffset = sessionTimeout
    /\ ctxErr = "nil"
    /\ pc = "select"
    /\ sessions[2].bytesSent = 0
    /\ ~sessions[2].done

\* C29: once the deadline context of the current session is done, by its
\* timer or by the audio sent, no buffer is taken from tx and sent on the
\* session.
C29_DeadlineBeforeWrites ==
    [][(Cur > 0 /\ sessions[Cur].done /\ sessions[Cur].sstream = "open") =>
           /\ sendLog' = sendLog
           /\ tx' = tx \/ Len(tx') > Len(tx)]_vars

RECURSIVE BytesOf(_, _)
\* The bytes of the buffers of the first n sends that succeeded on session k.
BytesOf(k, n) ==
    IF n = 0 THEN 0
    ELSE BytesOf(k, n - 1) + (IF sendLog[n].sess = k /\ sendLog[n].ok
                              THEN sendLog[n].buf.len ELSE 0)

C31_RxClosedIsNonFatal ==
    [][(pc = "ret" /\ retErr = "rx_closed" /\ pc' # "ret") =>
           /\ sessions[Cur].lst = "closed"
           /\ err' = "rx_closed"
           /\ IF ctxErr = "Canceled"
              THEN rxClosed' /\ pc' = "closed"
              ELSE ~rxClosed' /\ rxCloses' = 0 /\ pc' = "open"]_vars

\* A second session runs after the receive side of the first one closed
\* before its deadline, and rx is open.
C31_Witness ==
    /\ Cur = 2
    /\ pc = "select"
    /\ err = "rx_closed"
    /\ ~sessions[1].done
    /\ sessions[1].sstream = "open"
    /\ ~rxClosed
    /\ ctxErr = "nil"

\* C32: a next call on a ring of exactly one entry ends without a runtime
\* fault: it returns the entry when the entry passes the probe and a miss
\* when it does not, and the process goes on running.
C32_SingleEntryRingNoFault ==
    \A k \in Queries : \A j \in 1..Len(calls[k]) :
        Len(calls[k][j].ring) = 1 =>
            /\ calls[k][j].kind # "panic"
            /\ proc # "panicked"
            /\ calls[k][j].kind =
                   IF Valid(calls[k][j].ring[1]) THEN "image" ELSE "nil"
            /\ Valid(calls[k][j].ring[1]) =>
                   calls[k][j].image = calls[k][j].ring[1]

\* The Content-Type values of the model that contain "image".
ImageContentTypes ==
    {<<"i", "m", "a", "g", "e", "/", "j", "p", "e", "g">>,
     <<"i", "m", "a", "g", "e", "/", "p", "n", "g">>,
     <<"t", "e", "x", "t", "/", "i", "m", "a", "g", "e">>}

\* C33: discard returns true exactly when the HEAD request failed, or its
\* status is 400 or more, or its Content-Type does not contain "image"; so
\* status 399 with an image type is valid and status 400 is invalid. The
\* links of the model fail the probe exactly when they are in Broken.
C33_InvalidIffFailsOr400OrNotImage ==
    /\ hpc = "done" =>
           verdict = (\/ head.err
                      \/ head.status >= 400
                      \/ head.ctype \notin ImageContentTypes)
    /\ (hpc = "done" /\ ~head.err /\ head.status = 399
            /\ head.ctype \in ImageContentTypes) => verdict = FALSE
    /\ (hpc = "done" /\ head.status = 400) => verdict = TRUE
    /\ \A link \in Links : discard(link) <=> link \in Broken

\* A response with status 400 and an image type has been classified.
C33_Witness ==
    /\ hpc = "done"
    /\ ~head.err
    /\ head.status = 400
    /\ head.ctype \in ImageContentTypes
    /\ verdict = TRUE

\* C38 as stated: whenever rx is closed, err is a fatal error or the
\* cancellation cause.
C38_ErrIsFatalOrCancellation ==
    rxClosed => err \in {"fatal_open", "fatal_closesend", "Canceled"}

\* C38: rx is closed only by a step that stores in err the error the last
\* call of sessLoop returned, which is not nil and is a fatal error unless
\* the outer context is cancelled; err is not nil whenever rx is closed, and
\* it does not change once rx is closed.
C38_ClosedRxHasLastError ==
    /\ [](rxClosed => err # "nil")
    /\ [][(~rxClosed /\ rxClosed') =>
              /\ retErr # "nil"
              /\ err' = retErr
              /\ retErr \in {"fatal_open", "fatal_closesend"}
                     \/ ctxErr = "Canceled"]_vars
    /\ [][rxClosed => err' = err]_vars

\* rx was closed with the outer context cancelled and with the error of a
\* session whose receive side closed, which is neither fatal nor the
\* cancellation cause.
C38_Witness ==
    /\ rxClosed
    /\ ctxErr = "Canceled"
    /\ err = "rx_closed"

\* C39: rx is closed at most once, and nothing is sent on rx once it is
\* closed.
C39_ClosedOnceNoSendAfter ==
    /\ [](rxCloses <= 1)
    /\ [](rxClosed <=> rxCloses = 1)
    /\ [][rxClosed => rxLog' = rxLog]_vars
    /\ [](rxClosed => pc = "closed" /\ rr = NoRec)

\* rx was closed after records were sent on it, while the listener of a
\* session still holds a record it has not handed over.
C39_Witness ==
    /\ rxClosed
    /\ rxLog # <<>>
    /\ \E k \in 1..Len(sessions) : sessions[k].lst = "send"

=============================================================================
